---- MODULE Spec2Model ----
(***************************************************************************)
(* Model of the Sandwich API (Google Apps Script): the customer registry,  *)
(* the monthly sales ledgers and the ID counters of the settings sheet, as *)
(* implemented in src/unnamed/part_004 (customers), src/gas-api/Sales.js,  *)
(* src/gas-api/Code.js and src/gas-api/Router.js.                          *)
(*                                                                         *)
(* Strings the code inspects character by character (phones, emails,       *)
(* names, ids, sheet names) are sequences of one-character strings; column *)
(* names and settings keys, which the code only compares whole, are plain  *)
(* strings.  A JavaScript value is a tagged record (Str, Num, Undefined,   *)
(* Null, NaN).  A sheet is its name, its header row and its data rows;     *)
(* the record store returns a cell as it was written.                      *)
(***************************************************************************)
EXTENDS Integers, Sequences, FiniteSets, TLC

VARIABLES
    ss,        \* the spreadsheet: the sequence of its sheets, in creation order
    now,       \* the clock: the index of the current calendar month
    request,   \* the call being answered (op "none" when idle)
    response   \* the object that call returned

vars == <<ss, now, request, response>>

(***************************************************************************)
(* JavaScript values                                                       *)
(***************************************************************************)
Str(s) == [t |-> "string", v |-> s]
Num(n) == [t |-> "number", v |-> n]
Undefined == [t |-> "undefined"]
Null == [t |-> "null"]
NaN == [t |-> "NaN"]
Float == [t |-> "float"]   \* a finite number that is not an integer (2.5)

EmptyStr == Str(<<>>)

\* typeof x
TypeOf(x) ==
    CASE x.t = "string" -> "string"
      [] x.t \in {"number", "NaN", "float"} -> "number"
      [] x.t = "undefined" -> "undefined"
      [] OTHER -> "object"

\* !x
Falsy(x) ==
    \/ x.t \in {"undefined", "null", "NaN"}
    \/ x.t = "string" /\ x.v = <<>>
    \/ x.t = "number" /\ x.v = 0

\* x || ""
OrEmpty(x) == IF Falsy(x) THEN EmptyStr ELSE x

\* data[key] of a payload object: undefined when the key is absent
Get(data, key) == IF key \in DOMAIN data THEN data[key] ELSE Undefined

Range(s) == {s[i] : i \in 1..Len(s)}

\* headers.indexOf(name), 1-based; 0 when absent (-1 in the code)
IndexOf(headers, name) ==
    IF \E i \in 1..Len(headers) : headers[i] = name
    THEN CHOOSE i \in 1..Len(headers) :
             /\ headers[i] = name
             /\ \A j \in 1..(i - 1) : headers[j] # name
    ELSE 0

(***************************************************************************)
(* Characters and strings                                                  *)
(***************************************************************************)
DigitChars == <<"0", "1", "2", "3", "4", "5", "6", "7", "8", "9">>
UpperChars == <<"A", "B", "C", "D", "E", "F", "G", "H", "I", "J", "K", "L", "M",
                "N", "O", "P", "Q", "R", "S", "T", "U", "V", "W", "X", "Y", "Z">>
LowerChars == <<"a", "b", "c", "d", "e", "f", "g", "h", "i", "j", "k", "l", "m",
                "n", "o", "p", "q", "r", "s", "t", "u", "v", "w", "x", "y", "z">>

IsDigit(c) == \E i \in 1..Len(DigitChars) : DigitChars[i] = c
DigitVal(c) == (CHOOSE i \in 1..Len(DigitChars) : DigitChars[i] = c) - 1
IsSpace(c) == c = " "

LowerChar(c) ==
    IF \E i \in 1..Len(UpperChars) : UpperChars[i] = c
    THEN LowerChars[CHOOSE i \in 1..Len(UpperChars) : UpperChars[i] = c]
    ELSE c

\* s.toLowerCase()
ToLowerCase(s) == [i \in 1..Len(s) |-> LowerChar(s[i])]

\* s.trim()
RECURSIVE TrimStart(_)
TrimStart(s) == IF s # <<>> /\ IsSpace(Head(s)) THEN TrimStart(Tail(s)) ELSE s
RECURSIVE TrimEnd(_)
TrimEnd(s) ==
    IF s # <<>> /\ IsSpace(s[Len(s)]) THEN TrimEnd(SubSeq(s, 1, Len(s) - 1)) ELSE s
Trim(s) == TrimEnd(TrimStart(s))

\* String(n) of a non-negative integer
RECURSIVE NumToString(_)
NumToString(n) ==
    IF n < 10 THEN <<DigitChars[n + 1]>>
    ELSE NumToString(n \div 10) \o <<DigitChars[(n % 10) + 1]>>

\* String(x) of a cell
ToStr(x) ==
    CASE x.t = "string" -> x.v
      [] x.t = "number" -> NumToString(x.v)
      [] x.t = "NaN" -> <<"N", "a", "N">>
      [] OTHER -> <<"?">>

\* s.padStart(5, "0")
RECURSIVE PadStart5(_)
PadStart5(s) == IF Len(s) >= 5 THEN s ELSE PadStart5(<<"0">> \o s)

\* the leading run of digits of s, as parseInt(s, 10) reads it
RECURSIVE LeadingDigits(_)
LeadingDigits(s) ==
    IF s # <<>> /\ IsDigit(Head(s)) THEN <<Head(s)>> \o LeadingDigits(Tail(s)) ELSE <<>>
RECURSIVE DigitsValue(_)
DigitsValue(s) ==
    IF s = <<>> THEN 0 ELSE DigitsValue(SubSeq(s, 1, Len(s) - 1)) * 10 + DigitVal(s[Len(s)])

\* parseInt(x, 10)
ParseInt(x) ==
    CASE x.t = "number" -> x
      [] x.t = "string" ->
            LET d == LeadingDigits(TrimStart(x.v))
            IN  IF d = <<>> THEN NaN ELSE Num(DigitsValue(d))
      [] OTHER -> NaN

\* Number(x) of a cell, as the summary reads pending_balance: Number("") is 0
ToNumber(x) ==
    CASE x.t = "number" -> x
      [] x.t = "string" /\ Trim(x.v) = <<>> -> Num(0)
      [] x.t = "string" /\ LeadingDigits(Trim(x.v)) = Trim(x.v) -> Num(DigitsValue(Trim(x.v)))
      [] OTHER -> NaN

(***************************************************************************)
(* The spreadsheet (SpreadsheetApp): sheets by name, rows of cells         *)
(***************************************************************************)
CustomersName == <<"c", "u", "s", "t", "o", "m", "e", "r", "s">>
SummaryName == <<"s", "a", "l", "e", "s", "_", "s", "u", "m", "m", "a", "r", "y">>
SettingsName == <<"s", "e", "t", "t", "i", "n", "g", "s">>
Sheet1Name == <<"S", "h", "e", "e", "t", "1">>

CustomersHeader ==
    <<"customer_id", "first_name", "last_name", "phone", "email", "registered_at">>
SalesHeader ==
    <<"sale_id", "customer_id", "quantity", "unit_price", "total_price", "amount_paid",
      "pending_balance", "status", "sale_datetime", "last_payment_datetime">>
SummaryHeader == <<"month", "status", "last_updated_at">>
SettingsHeader == <<"key", "value">>

\* ss.insertSheet(name) followed by appendRow(header)
NewSheet(name, header) == [name |-> name, header |-> header, rows |-> <<>>]

HasSheet(S, name) == \E i \in 1..Len(S) : S[i].name = name
SheetIndex(S, name) == CHOOSE i \in 1..Len(S) : S[i].name = name
\* ss.getSheetByName(name), for a sheet that exists
GetSheet(S, name) == S[SheetIndex(S, name)]

\* sheet.appendRow(row)
AppendRow(S, name, row) ==
    [S EXCEPT ![SheetIndex(S, name)].rows = Append(@, row)]
\* sheet.getRange(r, 1, 1, n).setValues([row]), r counted among the data rows
SetRow(S, name, r, row) ==
    [S EXCEPT ![SheetIndex(S, name)].rows[r] = row]
\* ss.deleteSheet(sheet)
DeleteSheet(S, name) == SelectSeq(S, LAMBDA sh : sh.name # name)

\* headers.map((header) => object[header] || "")
ObjectToRow(headers, object) ==
    [i \in 1..Len(headers) |-> OrEmpty(Get(object, headers[i]))]

\* an ISO timestamp of instant t: a non-empty string, one per instant
ToISOString(t) == Str(<<"T">> \o NumToString(t))

(***************************************************************************)
(* Code.js: first-time setup                                               *)
(***************************************************************************)
\* variant: the settings sheet is written anew on every run
setupSpreadsheets_ResetsSettings(S) ==
    LET S1 == IF ~HasSheet(S, CustomersName)
              THEN Append(S, NewSheet(CustomersName, CustomersHeader)) ELSE S
        S2 == IF ~HasSheet(S1, SummaryName)
              THEN Append(S1, NewSheet(SummaryName, SummaryHeader)) ELSE S1
        S3 == Append(DeleteSheet(S2, SettingsName),
                     [NewSheet(SettingsName, SettingsHeader) EXCEPT !.rows =
                         << <<"last_customer_id_number", Str(<<"0">>)>>,
                            <<"last_sale_id_number", Str(<<"0">>)>> >>])
        S4 == IF HasSheet(S3, Sheet1Name) THEN DeleteSheet(S3, Sheet1Name) ELSE S3
    IN  [ss |-> S4,
         response |-> [success |-> TRUE,
                       message |-> IF S4 = S THEN "No action required." ELSE "Setup completed."]]

\* setupSpreadsheets(): each sheet is created only when absent; Sheet1 is deleted
setupSpreadsheets(S) ==
    LET S1 == IF ~HasSheet(S, CustomersName)
              THEN Append(S, NewSheet(CustomersName, CustomersHeader)) ELSE S
        S2 == IF ~HasSheet(S1, SummaryName)
              THEN Append(S1, NewSheet(SummaryName, SummaryHeader)) ELSE S1
        S3 == IF ~HasSheet(S2, SettingsName)
              THEN Append(S2, [NewSheet(SettingsName, SettingsHeader) EXCEPT !.rows =
                       << <<"last_customer_id_number", Str(<<"0">>)>>,
                          <<"last_sale_id_number", Str(<<"0">>)>> >>])
              ELSE S2
        S4 == IF HasSheet(S3, Sheet1Name) THEN DeleteSheet(S3, Sheet1Name) ELSE S3
    IN  [ss |-> S4,
         response |-> [success |-> TRUE,
                       message |-> IF S4 = S THEN "No action required." ELSE "Setup completed."]]

(***************************************************************************)
(* Customers: validators                                                   *)
(***************************************************************************)
\* variant: the pattern asks for six digits after the C
_customerIdIsValid_SixDigits(customerId) ==
    LET s == ToStr(customerId)
    IN  /\ Len(s) = 7
        /\ s[1] = "C"
        /\ \A i \in 2..7 : IsDigit(s[i])

\* CUSTOMER_ID_REGEX = /^C\d{5}$/ tested on a string
_customerIdIsValid(customerId) ==
    LET s == ToStr(customerId)
    IN  /\ Len(s) = 6
        /\ s[1] = "C"
        /\ \A i \in 2..6 : IsDigit(s[i])

\* phone.replace(NON_DIGITS_REGEX, "")
DigitsOnly(s) == SelectSeq(s, IsDigit)

_phoneValidator(phone) ==
    IF Falsy(phone) \/ TypeOf(phone) # "string"
    THEN [success |-> FALSE, value |-> Null]
    ELSE LET digitsOnly == DigitsOnly(phone.v)
         IN  IF Len(digitsOnly) = 10
             THEN [success |-> TRUE, value |-> Str(digitsOnly)]
             ELSE [success |-> FALSE, value |-> Null]

\* [^\s@]
NotSpaceOrAt(c) == ~IsSpace(c) /\ c # "@"

\* EMAIL_REGEX = /^[^\s@]+@[^\s@]+\.[^\s@]+$/
EmailRegexTest(s) ==
    \E i \in 2..Len(s) :
        /\ s[i] = "@"
        /\ \A k \in (1..Len(s)) \ {i} : NotSpaceOrAt(s[k])
        /\ \E j \in (i + 2)..(Len(s) - 1) : s[j] = "."

_emailValidator(email) ==
    IF Falsy(email) \/ TypeOf(email) # "string"
    THEN [success |-> FALSE, value |-> Null]
    ELSE LET trimmed == ToLowerCase(Trim(email.v))
         IN  IF EmailRegexTest(trimmed)
             THEN [success |-> TRUE, value |-> Str(trimmed)]
             ELSE [success |-> FALSE, value |-> Null]

(***************************************************************************)
(* Customers: lookups                                                      *)
(***************************************************************************)
_rowToCustomerObject(row, headers) ==
    [h \in Range(headers) |-> row[IndexOf(headers, h)]]

\* The first data row whose cell in columnName equals value, both trimmed and
\* lower-cased; Null when there is none, no such column or no customers sheet.
_findCustomerAndIndexBy(S, columnName, value) ==
    IF ~HasSheet(S, CustomersName) THEN Null
    ELSE LET sheet == GetSheet(S, CustomersName)
             columnIndex == IndexOf(sheet.header, columnName)
             normalizedValue == ToLowerCase(Trim(ToStr(value)))
             hits == {i \in 1..Len(sheet.rows) :
                         columnIndex # 0 /\
                         ToLowerCase(Trim(ToStr(sheet.rows[i][columnIndex]))) = normalizedValue}
         IN  IF hits = {} THEN Null
             ELSE LET i == CHOOSE i \in hits : \A j \in hits : i <= j
                  IN  [customer |-> _rowToCustomerObject(sheet.rows[i], sheet.header),
                       rowIndex |-> i + 1]

_findCustomerBy(S, columnName, value) ==
    LET result == _findCustomerAndIndexBy(S, columnName, value)
    IN  IF result = Null THEN Null ELSE result.customer

\* variant: the normalized phone is looked up in the email column
findCustomerByPhone_WrongColumn(S, phone) ==
    LET normalizedPhone == _phoneValidator(phone).value
    IN  IF Falsy(normalizedPhone) THEN Null
        ELSE _findCustomerBy(S, "email", normalizedPhone)

findCustomerByPhone(S, phone) ==
    LET normalizedPhone == _phoneValidator(phone).value
    IN  IF Falsy(normalizedPhone) THEN Null
        ELSE _findCustomerBy(S, "phone", normalizedPhone)

\* variant: the normalized email is looked up in the phone column
findCustomerByEmail_WrongColumn(S, email) ==
    LET normalizedEmail == _emailValidator(email).value
    IN  IF Falsy(normalizedEmail) THEN Null
        ELSE _findCustomerBy(S, "phone", normalizedEmail)

findCustomerByEmail(S, email) ==
    LET normalizedEmail == _emailValidator(email).value
    IN  IF Falsy(normalizedEmail) THEN Null
        ELSE _findCustomerBy(S, "email", normalizedEmail)

findCustomerById(S, customerId) ==
    IF ~_customerIdIsValid(customerId) THEN Null
    ELSE _findCustomerBy(S, "customer_id", customerId)

\* variant: every customer id is taken to exist
_customerExists_Always(S, customerId) == TRUE

_customerExists(S, customerId) == findCustomerById(S, customerId) # Null

(***************************************************************************)
(* Customers: ID allocation from the settings sheet                        *)
(***************************************************************************)
\* variant: the counter advances by two
PlusTwo(x) == IF x.t = "number" THEN Num(x.v + 2) ELSE NaN

\* lastIdNum + 1 in JavaScript
PlusOne(x) == IF x.t = "number" THEN Num(x.v + 1) ELSE NaN

\* Reads the counter stored under key, writes it back incremented and returns
\* prefix + the padded number; ok is FALSE where the code throws.
NextIdFromCounter(S, key, prefix) ==
    IF ~HasSheet(S, SettingsName) THEN [ok |-> FALSE, ss |-> S, id |-> <<>>]
    ELSE LET k == SheetIndex(S, SettingsName)
             rows == S[k].rows
             hits == {i \in 1..Len(rows) : rows[i][1] = key}
         IN  IF hits = {} THEN [ok |-> FALSE, ss |-> S, id |-> <<>>]
             ELSE LET r == CHOOSE i \in hits : \A j \in hits : i <= j
                      lastIdNum == ParseInt(rows[r][2])
                      nextIdNum == PlusOne(lastIdNum)
                  IN  [ok |-> TRUE,
                       ss |-> [S EXCEPT ![k].rows[r][2] = nextIdNum],
                       id |-> prefix \o PadStart5(ToStr(nextIdNum))]

\* variant: the incremented counter is not written back
_generateNextCustomerId_NoPersist(S) ==
    [NextIdFromCounter(S, "last_customer_id_number", <<"C">>) EXCEPT !.ss = S]

_generateNextCustomerId(S) == NextIdFromCounter(S, "last_customer_id_number", <<"C">>)

(***************************************************************************)
(* Customers: registerCustomer and updateCustomer                          *)
(***************************************************************************)
\* the catch block: { success: false, error: error.message }, nothing written
Failure(S, message) == [ss |-> S, response |-> [success |-> FALSE, error |-> message]]

\* x?.trim() of a string or an absent field
OptTrim(x) == IF x.t = "string" THEN Str(Trim(x.v)) ELSE Undefined

registerCustomer(S, t, data) ==
    LET first_name == Get(data, "first_name")
        last_name == Get(data, "last_name")
        phone == Get(data, "phone")
        email == Get(data, "email")
        cleanFirstName == OptTrim(first_name)
        cleanLastName == OptTrim(last_name)
        phoneValidation == _phoneValidator(phone)
        normalizedPhone == phoneValidation.value
        emailValidation == _emailValidator(email)
        normalizedEmail == IF Falsy(email) THEN EmptyStr ELSE emailValidation.value
        allocation == _generateNextCustomerId(S)
        newCustomer == [customer_id |-> Str(allocation.id),
                        first_name |-> cleanFirstName,
                        last_name |-> cleanLastName,
                        phone |-> normalizedPhone,
                        email |-> normalizedEmail,
                        registered_at |-> ToISOString(t)]
    IN  IF Falsy(cleanFirstName) \/ Falsy(cleanLastName) \/ Falsy(phone)
        THEN Failure(S, "Fields 'first_name', 'last_name', and 'phone' are required")
        ELSE IF ~phoneValidation.success
        THEN Failure(S, "Phone number must be 10 digits")
        ELSE IF ~Falsy(email) /\ ~emailValidation.success
        THEN Failure(S, "Invalid email format")
        ELSE IF findCustomerByPhone(S, normalizedPhone) # Null
        THEN Failure(S, "Customer with this phone number already exists")
        ELSE IF ~Falsy(normalizedEmail) /\ findCustomerByEmail(S, normalizedEmail) # Null
        THEN Failure(S, "Customer with this email already exists")
        ELSE IF ~HasSheet(S, CustomersName)
        THEN Failure(S, "Sheet 'customers' not found. Please run setupSpreadsheets() first.")
        ELSE IF ~allocation.ok
        THEN Failure(S, "Failed to generate a new customer ID.")
        ELSE [ss |-> AppendRow(allocation.ss, CustomersName,
                               ObjectToRow(GetSheet(S, CustomersName).header, newCustomer)),
              response |-> [success |-> TRUE, customer |-> newCustomer]]

\* the loop of updateCustomer with the duplicate checks made against every
\* customer, the one being updated included
RECURSIVE ApplyUpdateFields_RejectsOwn(_, _, _, _)
ApplyUpdateFields_RejectsOwn(S, updateData, keys, updatedCustomer) ==
    IF keys = <<>> THEN [ok |-> TRUE, customer |-> updatedCustomer]
    ELSE
    LET key == Head(keys)
        value == updateData[key]
        phoneValidation == _phoneValidator(value)
        duplicatePhone == findCustomerByPhone(S, phoneValidation.value)
        emailValidation == _emailValidator(value)
        duplicateEmail == findCustomerByEmail(S, emailValidation.value)
        Continue(c) == ApplyUpdateFields_RejectsOwn(S, updateData, Tail(keys), c)
        Throw(message) == [ok |-> FALSE, error |-> message]
    IN  IF key = "customer_id" \/ value \in {Undefined, Null}
        THEN Continue(updatedCustomer)
        ELSE IF key \in {"first_name", "last_name"}
        THEN IF TypeOf(value) # "string" THEN Throw("value.trim is not a function")
             ELSE Continue([updatedCustomer EXCEPT ![key] = Str(Trim(value.v))])
        ELSE IF key = "phone"
        THEN IF ~phoneValidation.success THEN Throw("Phone number must be 10 digits.")
             ELSE IF duplicatePhone # Null
             THEN Throw("Phone number already exists.")
             ELSE Continue([updatedCustomer EXCEPT ![key] = phoneValidation.value])
        ELSE IF key = "email"
        THEN IF ~emailValidation.success THEN Throw("Invalid email format.")
             ELSE IF duplicateEmail # Null
             THEN Throw("Email already exists.")
             ELSE Continue([updatedCustomer EXCEPT ![key] = emailValidation.value])
        ELSE Continue(updatedCustomer)

\* The body of the for...in loop of updateCustomer over the keys of the payload,
\* in their order: the copy of the customer with the fields applied, or the
\* message of the first error thrown.
RECURSIVE ApplyUpdateFields(_, _, _, _)
ApplyUpdateFields(S, updateData, keys, updatedCustomer) ==
    IF keys = <<>> THEN [ok |-> TRUE, customer |-> updatedCustomer]
    ELSE
    LET key == Head(keys)
        value == updateData[key]
        customer_id == updateData.customer_id
        phoneValidation == _phoneValidator(value)
        duplicatePhone == findCustomerByPhone(S, phoneValidation.value)
        emailValidation == _emailValidator(value)
        duplicateEmail == findCustomerByEmail(S, emailValidation.value)
        Continue(c) == ApplyUpdateFields(S, updateData, Tail(keys), c)
        Throw(message) == [ok |-> FALSE, error |-> message]
    IN  IF key = "customer_id" \/ value \in {Undefined, Null}
        THEN Continue(updatedCustomer)
        ELSE IF key \in {"first_name", "last_name"}
        THEN IF TypeOf(value) # "string" THEN Throw("value.trim is not a function")
             ELSE Continue([updatedCustomer EXCEPT ![key] = Str(Trim(value.v))])
        ELSE IF key = "phone"
        THEN IF ~phoneValidation.success THEN Throw("Phone number must be 10 digits.")
             ELSE IF duplicatePhone # Null /\ duplicatePhone.customer_id # customer_id
             THEN Throw("Phone number already exists.")
             ELSE Continue([updatedCustomer EXCEPT ![key] = phoneValidation.value])
        ELSE IF key = "email"
        THEN IF ~emailValidation.success THEN Throw("Invalid email format.")
             ELSE IF duplicateEmail # Null /\ duplicateEmail.customer_id # customer_id
             THEN Throw("Email already exists.")
             ELSE Continue([updatedCustomer EXCEPT ![key] = emailValidation.value])
        ELSE Continue(updatedCustomer)

\* updateCustomer writing each field to the row as soon as it has passed its check
updateCustomer_WritesAsItGoes(S, updateData, keys) ==
    LET customer_id == Get(updateData, "customer_id")
        customerRecord == _findCustomerAndIndexBy(S, "customer_id", customer_id)
        headers == GetSheet(S, CustomersName).header
        Applied(k) == ApplyUpdateFields(S, updateData, SubSeq(keys, 1, k), customerRecord.customer)
        passed == CHOOSE k \in 0..Len(keys) :
                      /\ Applied(k).ok
                      /\ \A j \in (k + 1)..Len(keys) : ~Applied(j).ok
    IN  IF Falsy(customer_id)
        THEN Failure(S, "customer_id is required for updates.")
        ELSE IF ~_customerIdIsValid(customer_id)
        THEN Failure(S, "Invalid format for customer_id")
        ELSE IF customerRecord = Null
        THEN Failure(S, "Customer with ID not found.")
        ELSE IF ~Applied(Len(keys)).ok
        THEN [ss |-> SetRow(S, CustomersName, customerRecord.rowIndex - 1,
                            ObjectToRow(headers, Applied(passed).customer)),
              response |-> [success |-> FALSE, error |-> Applied(Len(keys)).error]]
        ELSE [ss |-> SetRow(S, CustomersName, customerRecord.rowIndex - 1,
                            ObjectToRow(headers, Applied(Len(keys)).customer)),
              response |-> [success |-> TRUE, customer |-> Applied(Len(keys)).customer]]

\* updateCustomer copying the keys it does not know into the record it writes
updateCustomer_CopiesUnknownKeys(S, updateData, keys) ==
    LET customer_id == Get(updateData, "customer_id")
        customerRecord == _findCustomerAndIndexBy(S, "customer_id", customer_id)
        headers == GetSheet(S, CustomersName).header
        applied == ApplyUpdateFields(S, updateData, keys, customerRecord.customer)
        stamp == Get(updateData, "registered_at")
        written == IF stamp \in {Undefined, Null} THEN applied.customer
                   ELSE [applied.customer EXCEPT !.registered_at = stamp]
    IN  IF Falsy(customer_id)
        THEN Failure(S, "customer_id is required for updates.")
        ELSE IF ~_customerIdIsValid(customer_id)
        THEN Failure(S, "Invalid format for customer_id")
        ELSE IF customerRecord = Null
        THEN Failure(S, "Customer with ID not found.")
        ELSE IF ~applied.ok
        THEN Failure(S, applied.error)
        ELSE [ss |-> SetRow(S, CustomersName, customerRecord.rowIndex - 1,
                            ObjectToRow(headers, written)),
              response |-> [success |-> TRUE, customer |-> written]]

\* updateCustomer(updateData); keys is the order in which for...in visits the
\* payload's own keys.
updateCustomer(S, updateData, keys) ==
    LET customer_id == Get(updateData, "customer_id")
        customerRecord == _findCustomerAndIndexBy(S, "customer_id", customer_id)
        headers == GetSheet(S, CustomersName).header
        applied == ApplyUpdateFields(S, updateData, keys, customerRecord.customer)
        newRowData == ObjectToRow(headers, applied.customer)
    IN  IF Falsy(customer_id)
        THEN Failure(S, "customer_id is required for updates.")
        ELSE IF ~_customerIdIsValid(customer_id)
        THEN Failure(S, "Invalid format for customer_id")
        ELSE IF customerRecord = Null
        THEN Failure(S, "Customer with ID not found.")
        ELSE IF ~applied.ok
        THEN Failure(S, applied.error)
        ELSE [ss |-> SetRow(S, CustomersName, customerRecord.rowIndex - 1, newRowData),
              response |-> [success |-> TRUE, customer |-> applied.customer]]

(***************************************************************************)
(* Sales.js: monthly ledger sheets, sale ids, status, validation           *)
(***************************************************************************)
DEFAULT_UNIT_PRICE == 15000

StatusPaid == <<"P", "a", "i", "d">>
StatusPartial == <<"P", "a", "r", "t", "i", "a", "l">>
StatusUnpaid == <<"U", "n", "p", "a", "i", "d">>

\* s.padStart(2, "0")
PadStart2(s) == IF Len(s) >= 2 THEN s ELSE <<"0">> \o s

\* Utilities.formatDate(date, tz, "yyyy-MM") of the clock's month t (month 0 is 2025-01)
FormatMonth(t) ==
    NumToString(2025 + (t \div 12)) \o <<"-">> \o PadStart2(NumToString((t % 12) + 1))

\* month.replace("-", "_"): the first "-" only
RECURSIVE ReplaceFirstDash(_)
ReplaceFirstDash(s) ==
    IF s = <<>> THEN <<>>
    ELSE IF Head(s) = "-" THEN <<"_">> \o Tail(s)
    ELSE <<Head(s)>> \o ReplaceFirstDash(Tail(s))

\* variant: the month is left out of the sheet name
SalesSheetName_NoMonth(month) == <<"s", "a", "l", "e", "s", "_">>

\* `sales_${month.replace("-", "_")}`
SalesSheetName(month) == <<"s", "a", "l", "e", "s", "_">> \o ReplaceFirstDash(month)

\* variant: the header row is appended whether or not the sheet existed
_getSalesSheetForMonth_AlwaysAppendsHeader(S, month) ==
    LET sheetName == SalesSheetName(month)
    IN  [ss |-> IF ~HasSheet(S, sheetName)
                THEN Append(S, NewSheet(sheetName, SalesHeader))
                ELSE AppendRow(S, sheetName, SalesHeader),
         name |-> sheetName]

\* the sheet of the month, created with its header when absent
_getSalesSheetForMonth(S, month) ==
    LET sheetName == SalesSheetName(month)
    IN  [ss |-> IF ~HasSheet(S, sheetName)
                THEN Append(S, NewSheet(sheetName, SalesHeader))
                ELSE S,
         name |-> sheetName]

\* variant: the incremented counter is not written back
_generateNextSaleId_NoPersist(S) ==
    [NextIdFromCounter(S, "last_sale_id_number", <<"S">>) EXCEPT !.ss = S]

\* variant: the sale id is taken from the counter of the customers
_generateNextSaleId_CustomerCounter(S) ==
    NextIdFromCounter(S, "last_customer_id_number", <<"S">>)

_generateNextSaleId(S) == NextIdFromCounter(S, "last_sale_id_number", <<"S">>)

\* variant: Paid only when more than the total was paid
_calculateSaleStatus_Strict(totalPrice, amountPaid) ==
    IF amountPaid > totalPrice THEN StatusPaid
    ELSE IF amountPaid > 0 THEN StatusPartial
    ELSE StatusUnpaid

_calculateSaleStatus(totalPrice, amountPaid) ==
    IF amountPaid >= totalPrice THEN StatusPaid
    ELSE IF amountPaid > 0 THEN StatusPartial
    ELSE StatusUnpaid

\* typeof x !== "number" || !Number.isInteger(x)
NotAnInteger(x) == TypeOf(x) # "number" \/ x.t # "number"

\* variant: a quantity of zero is let through
QuantityNegative(quantity) == quantity.v < 0

\* quantity <= 0
QuantityNotPositive(quantity) == quantity.v <= 0

\* variant: the overpayment rule is not applied
ExceedsTotalPrice_Skipped(quantity, amountPaid) == FALSE

\* amountPaid > quantity * DEFAULT_UNIT_PRICE
ExceedsTotalPrice(quantity, amountPaid) == amountPaid.v > quantity.v * DEFAULT_UNIT_PRICE

\* _validateSale: the message of the error thrown (without the values the code
\* interpolates into it), or ok
_validateSale(S, customerId, quantity, amountPaid) ==
    LET Throw(message) == [ok |-> FALSE, error |-> message]
    IN  IF Falsy(customerId) \/ quantity \in {Null, Undefined} \/ amountPaid \in {Null, Undefined}
        THEN Throw("Missing required fields: customerId, quantity, amountPaid")
        ELSE IF ~_customerIdIsValid(customerId)
        THEN Throw("Customer ID is not in the correct format.")
        ELSE IF ~_customerExists(S, customerId)
        THEN Throw("Customer with ID does not exist.")
        ELSE IF NotAnInteger(quantity) \/ NotAnInteger(amountPaid)
        THEN Throw("Quantity and amountPaid must be integers.")
        ELSE IF QuantityNotPositive(quantity)
        THEN Throw("Quantity must be greater than 0.")
        ELSE IF amountPaid.v < 0
        THEN Throw("Amount paid cannot be a negative number.")
        ELSE IF ExceedsTotalPrice(quantity, amountPaid)
        THEN Throw("Amount paid cannot be greater than the total price.")
        ELSE [ok |-> TRUE]

\* registerSale(customerId, quantity, amountPaid) at instant t
registerSale(S, t, customerId, quantity, amountPaid) ==
    LET validation == _validateSale(S, customerId, quantity, amountPaid)
        month == FormatMonth(t)
        totalPrice == quantity.v * DEFAULT_UNIT_PRICE
        pendingBalance == totalPrice - amountPaid.v
        status == _calculateSaleStatus(totalPrice, amountPaid.v)
        sheet == _getSalesSheetForMonth(S, month)
        allocation == _generateNextSaleId(sheet.ss)
        newSale == [sale_id |-> Str(allocation.id),
                    customer_id |-> customerId,
                    quantity |-> quantity,
                    unit_price |-> Num(DEFAULT_UNIT_PRICE),
                    total_price |-> Num(totalPrice),
                    amount_paid |-> amountPaid,
                    pending_balance |-> Num(pendingBalance),
                    status |-> Str(status),
                    sale_datetime |-> ToISOString(t),
                    last_payment_datetime |-> ToISOString(t)]
    IN  IF ~validation.ok
        THEN Failure(S, validation.error)
        ELSE IF ~allocation.ok
        THEN Failure(sheet.ss, "Failed to generate a new sale ID.")
        ELSE [ss |-> AppendRow(allocation.ss, sheet.name,
                               ObjectToRow(GetSheet(sheet.ss, sheet.name).header, newSale)),
              response |-> [success |-> TRUE, sale |-> newSale]]

(***************************************************************************)
(* Summary.js: the rebuild of the sales_summary sheet                      *)
(***************************************************************************)
SummaryPending == <<"p", "e", "n", "d", "i", "n", "g">>
SummarySettled == <<"s", "e", "t", "t", "l", "e", "d">>

\* /sales_\d{4}_\d{2}/.test(name): the pattern may match anywhere in the name
SalesNameRegexTest(name) ==
    \E i \in 1..(Len(name) - 12) :
        /\ SubSeq(name, i, i + 5) = <<"s", "a", "l", "e", "s", "_">>
        /\ \A k \in (i + 6)..(i + 9) : IsDigit(name[k])
        /\ name[i + 10] = "_"
        /\ \A k \in (i + 11)..(i + 12) : IsDigit(name[k])

\* variant: a sheet holding a single sale counts as empty
DataIsEmpty_OneRow(sheet) == Len(sheet.rows) + 1 <= 2

\* data.length <= 1, data being the header row and the data rows
DataIsEmpty(sheet) == Len(sheet.rows) + 1 <= 1

\* variant: only the first sale of the sheet is examined
HasPending_FirstRowOnly(rows, pendingIdx) ==
    ToNumber(rows[1][pendingIdx]).t = "number" /\ ToNumber(rows[1][pendingIdx]).v > 0

\* data.slice(1).some((row) => Number(row[pendingIdx]) > 0)
HasPending(rows, pendingIdx) ==
    \E i \in 1..Len(rows) :
        ToNumber(rows[i][pendingIdx]).t = "number" /\ ToNumber(rows[i][pendingIdx]).v > 0

\* Utilities.formatDate(now, tz, "yyyy-MM-dd HH:mm:ss") of the clock's month t
FormatDateTime(t) ==
    FormatMonth(t) \o <<"-", "0", "1", " ", "0", "0", ":", "0", "0", ":", "0", "0">>

\* monthStatusMap, in the order of ss.getSheets(): the summary rows of the sheets
\* whose name matches; a matching sheet with rows but no pending_balance column
\* gets no entry
RECURSIVE SummaryEntries(_, _)
SummaryEntries(sheets, t) ==
    IF sheets = <<>> THEN <<>>
    ELSE LET sheet == Head(sheets)
             pendingIdx == IndexOf(sheet.header, "pending_balance")
             Entry(status) == <<Str(sheet.name), Str(status), Str(FormatDateTime(t))>>
             rest == SummaryEntries(Tail(sheets), t)
         IN  IF ~SalesNameRegexTest(sheet.name) THEN rest
             ELSE IF DataIsEmpty(sheet) THEN <<Entry(SummarySettled)>> \o rest
             ELSE IF pendingIdx = 0 THEN rest
             ELSE IF HasPending(sheet.rows, pendingIdx) THEN <<Entry(SummaryPending)>> \o rest
             ELSE <<Entry(SummarySettled)>> \o rest

\* variant: only the sheet of the current month is reported
updateSalesSummary_CurrentMonthOnly(S, t) ==
    IF ~HasSheet(S, SummaryName) THEN [ss |-> S, response |-> Undefined]
    ELSE [ss |-> [S EXCEPT ![SheetIndex(S, SummaryName)] =
                       [name |-> SummaryName, header |-> SummaryHeader,
                        rows |-> SummaryEntries(
                                    SelectSeq(S, LAMBDA sh :
                                        sh.name = SalesSheetName(FormatMonth(t))), t)]],
          response |-> Undefined]

\* updateSalesSummary() at instant t: clearContents, the header, one row per month;
\* nothing happens without a summary sheet.  The function returns undefined.
updateSalesSummary(S, t) ==
    IF ~HasSheet(S, SummaryName) THEN [ss |-> S, response |-> Undefined]
    ELSE [ss |-> [S EXCEPT ![SheetIndex(S, SummaryName)] =
                       [name |-> SummaryName, header |-> SummaryHeader,
                        rows |-> SummaryEntries(S, t)]],
          response |-> Undefined]

\* listPendingSales(): the body is a comment and a bare return
listPendingSales(S) == Undefined

(***************************************************************************)
(* Inputs                                                                  *)
(***************************************************************************)
MaxCustomers == 2   \* customer rows the model lets the table grow to
MaxSales == 2       \* sale rows the model lets the ledgers grow to, all months together
MaxTime == 1        \* months the clock may advance

PhoneA == <<"3", "1", "7", "6", "3", "5", "9", "7", "7", "3">>
PhoneAFormatted == <<"3", "1", "7", "-", "6", "3", "5", "-", "9", "7", "7", "3">>
PhoneB == <<"3", "0", "5", "3", "8", "3", "1", "5", "4", "2">>
PhoneC == <<"3", "1", "1", "8", "9", "1", "7", "6", "6", "8">>
PhoneShort == <<"1", "2", "3">>
\* the phones new customers bring, one per customer the bound admits
ValidPhones == <<PhoneA, PhoneB, PhoneC, PhoneC>>

EmailA == <<"a", "@", "b", ".", "c">>
EmailAUpper == <<"A", "@", "B", ".", "c", " ">>
EmailB == <<"d", "@", "e", ".", "f">>
EmailBad == <<"a", ".", "b">>

NameAl == <<" ", "A", "l">>
NameBo == <<"B", "o">>
NameZ == <<"Z">>
NameBlank == <<" ">>

IdC1 == <<"C", "0", "0", "0", "0", "1">>
IdC2 == <<"C", "0", "0", "0", "0", "2">>
IdC3 == <<"C", "0", "0", "0", "0", "3">>
IdLower == <<"c", "0", "0", "0", "0", "1">>

\* payloads of registerCustomer
RegisterPayloads(names, phones, emails) ==
    {[first_name |-> n[1], last_name |-> n[2], phone |-> p, email |-> e] :
        n \in names, p \in phones, e \in emails}

\* payloads of updateCustomer
UpdatePayloads(ids, firstNames, phones, emails) ==
    {[customer_id |-> c, first_name |-> f, last_name |-> Undefined, phone |-> p, email |-> e] :
        c \in ids, f \in firstNames, p \in phones, e \in emails}

\* the orders in which for...in may visit the keys of an update payload
UpdateKeyOrders ==
    { <<"customer_id", "first_name", "last_name", "phone", "email">>,
      <<"email", "phone", "last_name", "first_name", "customer_id">> }

RegistryRegisterPayloads ==
    RegisterPayloads(
        { <<Str(NameAl), Str(NameZ)>>, <<Str(NameBlank), Str(NameZ)>> },
        { Str(ValidPhones[i]) : i \in 1..MaxCustomers } \cup { Str(PhoneAFormatted), Str(PhoneShort) },
        { Undefined, Str(EmailA), Str(EmailAUpper), Str(EmailB), Str(EmailBad) })

RegistryUpdatePayloads ==
    UpdatePayloads(
        { Str(IdC1), Str(IdC2), Str(IdLower) },
        { Undefined, Str(NameBo), Str(NameBlank) },
        { Undefined, Str(PhoneAFormatted), Str(PhoneB), Str(PhoneShort) },
        { Undefined, Str(EmailAUpper), Str(EmailB), Str(EmailBad) })

\* the registry calls of the ledger specification: two customers, one rename
LedgerRegisterPayloads ==
    RegisterPayloads({ <<Str(NameAl), Str(NameZ)>> }, { Str(PhoneA) }, { Str(EmailAUpper) })
    \cup RegisterPayloads({ <<Str(NameBo), Str(NameZ)>> }, { Str(PhoneB) }, { Undefined })

LedgerUpdatePayloads ==
    UpdatePayloads({ Str(IdC1) }, { Str(NameBo) }, { Undefined }, { Str(EmailB) })

\* arguments of registerSale: <<quantity, amountPaid>> for a well-formed
\* customerId (unpaid, paid, partial, overpaid, no units, negative, fractional,
\* missing), two sales of a second customer, and two calls without a customerId
SaleQuantitiesAndAmounts ==
    { <<Num(1), Num(0)>>, <<Num(1), Num(15000)>>, <<Num(2), Num(15000)>>,
      <<Num(1), Num(30000)>>, <<Num(0), Num(0)>>, <<Num(1), Num(-1)>>,
      <<Float, Num(0)>>, <<Num(1), Float>>, <<Num(1), Null>> }
SaleRequests ==
    { <<Str(IdC1), qa[1], qa[2]>> : qa \in SaleQuantitiesAndAmounts }
    \cup { <<Str(IdC2), Num(1), Num(0)>>, <<Str(IdC2), Num(2), Num(15000)>>,
           <<Str(IdLower), Num(1), Num(0)>>, <<Undefined, Num(1), Num(0)>> }

(***************************************************************************)
(* State machine                                                           *)
(***************************************************************************)
NoRequest == [op |-> "none"]
Idle == request = NoRequest

\* the data rows of the customers sheet (none while the sheet does not exist)
CustomerRows(S) == IF HasSheet(S, CustomersName) THEN GetSheet(S, CustomersName).rows ELSE <<>>

\* a new spreadsheet holds the default sheet only
Init ==
    /\ ss = <<NewSheet(Sheet1Name, <<>>)>>
    /\ now = 0
    /\ request = NoRequest
    /\ response = Undefined

SetupSpreadsheets ==
    /\ Idle
    /\ \E r \in {setupSpreadsheets(ss)} :
          /\ ss' = r.ss
          /\ response' = r.response
    /\ request' = [op |-> "setup"]
    /\ UNCHANGED now

RegisterCustomer(data) ==
    /\ Idle
    /\ \E r \in {registerCustomer(ss, now, data)} :
          /\ Len(CustomerRows(r.ss)) <= MaxCustomers
          /\ ss' = r.ss
          /\ response' = r.response
    /\ request' = [op |-> "registerCustomer", data |-> data]
    /\ UNCHANGED now

UpdateCustomer(data) ==
    /\ Idle
    /\ \E r \in {updateCustomer(ss, data, keys) : keys \in UpdateKeyOrders} :
          /\ ss' = r.ss
          /\ response' = r.response
    /\ request' = [op |-> "updateCustomer", data |-> data]
    /\ UNCHANGED now

\* the request has been answered; the next one may begin
Return ==
    /\ ~Idle
    /\ request' = NoRequest
    /\ response' = Undefined
    /\ UNCHANGED <<ss, now>>

\* time passes between requests
Tick ==
    /\ Idle
    /\ now < MaxTime
    /\ now' = now + 1
    /\ UNCHANGED <<ss, request, response>>

\* the sheets of the monthly ledgers, in creation order
IsSalesSheet(sh) == sh.header = SalesHeader
SalesSheets(S) == SelectSeq(S, IsSalesSheet)
RECURSIVE CountSaleRows(_)
CountSaleRows(sheets) ==
    IF sheets = <<>> THEN 0 ELSE Len(Head(sheets).rows) + CountSaleRows(Tail(sheets))

RegisterSale(customerId, quantity, amountPaid) ==
    /\ Idle
    /\ \E r \in {registerSale(ss, now, customerId, quantity, amountPaid)} :
          /\ CountSaleRows(SalesSheets(r.ss)) <= MaxSales
          /\ ss' = r.ss
          /\ response' = r.response
    /\ request' = [op |-> "registerSale", customerId |-> customerId,
                   quantity |-> quantity, amountPaid |-> amountPaid]
    /\ UNCHANGED now

\* the registry: the clock stands still, registered_at being the only thing it
\* reaches
NextCustomers ==
    \/ SetupSpreadsheets
    \/ \E data \in RegistryRegisterPayloads : RegisterCustomer(data)
    \/ \E data \in RegistryUpdatePayloads : UpdateCustomer(data)
    \/ Return

SpecCustomers == Init /\ [][NextCustomers]_vars

NextLedger ==
    \/ SetupSpreadsheets
    \/ \E data \in LedgerRegisterPayloads : RegisterCustomer(data)
    \/ \E data \in LedgerUpdatePayloads : UpdateCustomer(data)
    \/ \E call \in SaleRequests : RegisterSale(call[1], call[2], call[3])
    \/ Return
    \/ Tick

SpecLedger == Init /\ [][NextLedger]_vars

(***************************************************************************)
(* The summary: rebuilds, pending-sales queries and edits made by hand     *)
(***************************************************************************)
SummaryRegisterPayloads ==
    RegisterPayloads({ <<Str(NameAl), Str(NameZ)>> }, { Str(PhoneA) }, { Undefined })

\* a paid, an unpaid and a partly paid sale of the first customer
SummarySaleRequests ==
    { <<Str(IdC1), Num(1), Num(15000)>>, <<Str(IdC1), Num(1), Num(0)>>,
      <<Str(IdC1), Num(2), Num(15000)>> }

\* a summary row typed in by hand, naming a month that has no sheet
ManualSummaryRow ==
    <<Str(<<"s", "a", "l", "e", "s", "_", "1", "9", "9", "9", "_", "0", "1">>),
      Str(SummaryPending), EmptyStr>>

UpdateSalesSummary ==
    /\ Idle
    /\ \E r \in {updateSalesSummary(ss, now)} :
          /\ ss' = r.ss
          /\ response' = r.response
    /\ request' = [op |-> "updateSalesSummary"]
    /\ UNCHANGED now

ListPendingSales ==
    /\ Idle
    /\ response' = listPendingSales(ss)
    /\ request' = [op |-> "listPendingSales"]
    /\ UNCHANGED <<ss, now>>

\* the owner of the spreadsheet adds a row to the summary sheet
EditSummary ==
    /\ Idle
    /\ HasSheet(ss, SummaryName)
    /\ ManualSummaryRow \notin Range(GetSheet(ss, SummaryName).rows)
    /\ ss' = AppendRow(ss, SummaryName, ManualSummaryRow)
    /\ UNCHANGED <<now, request, response>>

\* the owner of the spreadsheet deletes the row of a counter from the settings sheet
DeleteCounter(key) ==
    /\ Idle
    /\ HasSheet(ss, SettingsName)
    /\ \E i \in 1..Len(GetSheet(ss, SettingsName).rows) : GetSheet(ss, SettingsName).rows[i][1] = key
    /\ ss' = [ss EXCEPT ![SheetIndex(ss, SettingsName)].rows =
                 SelectSeq(@, LAMBDA row : row[1] # key)]
    /\ UNCHANGED <<now, request, response>>

NextSummary ==
    \/ SetupSpreadsheets
    \/ \E data \in SummaryRegisterPayloads : RegisterCustomer(data)
    \/ \E call \in SummarySaleRequests : RegisterSale(call[1], call[2], call[3])
    \/ UpdateSalesSummary
    \/ ListPendingSales
    \/ EditSummary
    \/ DeleteCounter("last_sale_id_number")
    \/ Return
    \/ Tick

SpecSummary == Init /\ [][NextSummary]_vars

(***************************************************************************)
(* The phone validator on its own                                          *)
(***************************************************************************)
\* raw phone inputs: an optional country code, an area code, a separator,
\* the rest of the number (one digit short, exact, one digit long) and a tail
PhoneInputs ==
    { Str(a \o b \o c \o d \o e) :
        a \in { <<>>, <<"1">>, <<"+", "1", " ">>, <<"(">> },
        b \in { <<"3", "1", "7">>, <<"1", "0", "5">> },
        c \in { <<>>, <<"-">>, <<")", " ">>, <<".">> },
        d \in { <<"6", "3", "5", "9", "7", "7">>, <<"6", "3", "5", "9", "7", "7", "3">>,
                <<"6", "3", "5", "-", "9", "7", "7", "3">>,
                <<"6", "3", "5", "9", "7", "7", "3", "1">> },
        e \in { <<>>, <<" ", "x">> } }
    \cup { Undefined, Null, EmptyStr, Num(3) }

PhoneValidator(phone) ==
    /\ Idle
    /\ request' = [op |-> "_phoneValidator", phone |-> phone]
    /\ response' = _phoneValidator(phone)
    /\ UNCHANGED <<ss, now>>

NextPhone ==
    \/ \E phone \in PhoneInputs : PhoneValidator(phone)
    \/ Return

SpecPhone == Init /\ [][NextPhone]_vars

(***************************************************************************)
(* Updates that also carry a registered_at, over customers registered at   *)
(* different times                                                         *)
(***************************************************************************)
StampX == <<"x">>

StampedRegisterPayloads ==
    RegisterPayloads({ <<Str(NameAl), Str(NameZ)>> }, { Str(PhoneA) }, { Str(EmailA) })
    \cup RegisterPayloads({ <<Str(NameBo), Str(NameZ)>> }, { Str(PhoneB) }, { Undefined })

StampedUpdatePayloads ==
    {[customer_id |-> c, first_name |-> f, last_name |-> Undefined, phone |-> p, email |-> e,
      registered_at |-> r] :
        c \in { Str(IdC1), Str(IdC2) }, f \in { Undefined, Str(NameBo) },
        p \in { Undefined, Str(PhoneB), Str(PhoneC) }, e \in { Undefined, Str(EmailB) },
        r \in { Undefined, Str(StampX) }}

StampedKeyOrders ==
    { <<"customer_id", "first_name", "last_name", "phone", "email", "registered_at">>,
      <<"registered_at", "email", "phone", "last_name", "first_name", "customer_id">> }

UpdateCustomerStamped(data) ==
    /\ Idle
    /\ \E r \in {updateCustomer(ss, data, keys) : keys \in StampedKeyOrders} :
          /\ ss' = r.ss
          /\ response' = r.response
    /\ request' = [op |-> "updateCustomer", data |-> data]
    /\ UNCHANGED now

NextStamped ==
    \/ SetupSpreadsheets
    \/ \E data \in StampedRegisterPayloads : RegisterCustomer(data)
    \/ \E data \in StampedUpdatePayloads : UpdateCustomerStamped(data)
    \/ Return
    \/ Tick

SpecStamped == Init /\ [][NextStamped]_vars

(***************************************************************************)
(* Registrations over a settings sheet that is deleted or edited by hand   *)
(***************************************************************************)
\* a counter value that is not a number
CorruptValue == Str(<<"x">>)

\* the owner of the spreadsheet overwrites the value of a counter
CorruptCounter(key) ==
    /\ Idle
    /\ HasSheet(ss, SettingsName)
    /\ \E i \in 1..Len(GetSheet(ss, SettingsName).rows) :
          /\ GetSheet(ss, SettingsName).rows[i][1] = key
          /\ GetSheet(ss, SettingsName).rows[i][2] # CorruptValue
          /\ ss' = [ss EXCEPT ![SheetIndex(ss, SettingsName)].rows[i][2] = CorruptValue]
    /\ UNCHANGED <<now, request, response>>

\* the owner of the spreadsheet deletes the settings sheet
DeleteSettings ==
    /\ Idle
    /\ HasSheet(ss, SettingsName)
    /\ ss' = DeleteSheet(ss, SettingsName)
    /\ UNCHANGED <<now, request, response>>

NextCounters ==
    \/ SetupSpreadsheets
    \/ \E data \in StampedRegisterPayloads : RegisterCustomer(data)
    \/ \E call \in SummarySaleRequests : RegisterSale(call[1], call[2], call[3])
    \/ \E key \in {"last_customer_id_number", "last_sale_id_number"} : CorruptCounter(key)
    \/ \E key \in {"last_customer_id_number", "last_sale_id_number"} : DeleteCounter(key)
    \/ DeleteSettings
    \/ Return

SpecCounters == Init /\ [][NextCounters]_vars

(***************************************************************************)
(* Router.js: doGet and doPost                                             *)
(***************************************************************************)
\* getAllCustomers(): the customer objects, [] when the sheet is missing
getAllCustomers(S) ==
    IF ~HasSheet(S, CustomersName) THEN <<>>
    ELSE LET sheet == GetSheet(S, CustomersName)
         IN  [i \in 1..Len(sheet.rows) |-> _rowToCustomerObject(sheet.rows[i], sheet.header)]

\* the text of a request body: text that is not JSON, or the JSON text of a value
NotJson == [parses |-> FALSE]
Json(value) == [parses |-> TRUE, value |-> value]

\* JSON.parse(text): the value, or ok FALSE where it throws
JSONParse(text) ==
    IF text.parses THEN [ok |-> TRUE, value |-> text.value] ELSE [ok |-> FALSE]

\* x is an object with own keys, not null, undefined or a primitive
IsObject(x) == "t" \notin DOMAIN x

\* switch (action) reaches case name
HasAction(params, name) ==
    IsObject(params) /\ "action" \in DOMAIN params /\ params.action = name

\* doGet(e); every return sends JSON.stringify of the response
doGet(S, e) ==
    IF HasAction(e.parameter, "setup")
    THEN [ss |-> setupSpreadsheets(S).ss,
          response |-> [success |-> TRUE, result |-> setupSpreadsheets(S).response]]
    ELSE IF HasAction(e.parameter, "getAllCustomers")
    THEN [ss |-> S, response |-> [success |-> TRUE, data |-> getAllCustomers(S)]]
    ELSE Failure(S, "Unknown or unsupported GET action.")

\* doPost(e); keys is the order in which updateCustomer visits the keys of
\* data. Where an exception leaves doPost the response is [raised |-> its name].
doPost(S, t, e, keys) ==
    LET parsed == IF e.postData = Undefined THEN [ok |-> FALSE]
                  ELSE JSONParse(e.postData.contents)
        params == parsed.value
        data == IF IsObject(params) THEN Get(params, "data") ELSE Undefined
    IN  IF ~parsed.ok
        THEN Failure(S, "Invalid JSON format in request body.")
        ELSE IF params \in {Null, Undefined}
        THEN [ss |-> S, response |-> [raised |-> "TypeError"]]
        ELSE IF HasAction(params, "registerCustomer")
        THEN IF data \in {Null, Undefined}
             THEN Failure(S, "Cannot destructure property of data.")
             ELSE registerCustomer(S, t, data)
        ELSE IF HasAction(params, "updateCustomer")
        THEN IF data \in {Null, Undefined}
             THEN Failure(S, "Cannot destructure property of data.")
             ELSE updateCustomer(S, data, keys)
        ELSE IF HasAction(params, "registerSale")
        THEN IF data \in {Null, Undefined}
             THEN Failure(S, "Cannot destructure property of data.")
             ELSE registerSale(S, t, Get(data, "customerId"), Get(data, "quantity"),
                               Get(data, "amountPaid"))
        ELSE Failure(S, "Unknown or unsupported POST action.")

\* GET requests: the two actions, an action only doPost knows, no action
GetEvents ==
    { [parameter |-> [action |-> a]] : a \in {"setup", "getAllCustomers", "registerCustomer"} }
    \cup { [parameter |-> [page |-> "1"]] }

\* POST requests: no body, a body that is not JSON, the JSON texts null and 5,
\* and objects with and without action and data
PostEvents ==
    { [postData |-> Undefined], [postData |-> [contents |-> NotJson]] }
    \cup { [postData |-> [contents |-> Json(v)]] :
             v \in { Null, Num(5), [data |-> Num(5)], [action |-> "deleteCustomer", data |-> Null] }
                   \cup { [action |-> a] : a \in {"registerCustomer", "updateCustomer", "registerSale"} }
                   \cup { [action |-> a, data |-> d] :
                            a \in {"registerCustomer", "updateCustomer", "registerSale"},
                            d \in {Null, Num(5)} }
                   \cup { [action |-> "registerCustomer", data |-> d] : d \in StampedRegisterPayloads }
                   \cup { [action |-> "updateCustomer", data |-> d] : d \in LedgerUpdatePayloads }
                   \cup { [action |-> "registerSale",
                           data |-> [customerId |-> c[1], quantity |-> c[2], amountPaid |-> c[3]]] :
                            c \in SummarySaleRequests } }

DoGet(e) ==
    /\ Idle
    /\ \E r \in {doGet(ss, e)} :
          /\ ss' = r.ss
          /\ response' = r.response
    /\ request' = [op |-> "doGet", e |-> e]
    /\ UNCHANGED now

DoPost(e) ==
    /\ Idle
    /\ \E r \in {doPost(ss, now, e, keys) : keys \in UpdateKeyOrders} :
          /\ Len(CustomerRows(r.ss)) <= MaxCustomers
          /\ CountSaleRows(SalesSheets(r.ss)) <= MaxSales
          /\ ss' = r.ss
          /\ response' = r.response
    /\ request' = [op |-> "doPost", e |-> e]
    /\ UNCHANGED now

NextRouter ==
    \/ \E e \in GetEvents : DoGet(e)
    \/ \E e \in PostEvents : DoPost(e)
    \/ Return
    \/ Tick

SpecRouter == Init /\ [][NextRouter]_vars

(***************************************************************************)
(* Sales posted with and without a unit_price of the caller's              *)
(***************************************************************************)
\* POST bodies of registerSale for the first customer: 3 units with 10000
\* paid, 1 unit unpaid, 1 unit with 5000 paid; with unit_price 5000 or none
PricedEvents ==
    { [postData |-> [contents |-> Json([action |-> "registerCustomer", data |-> d])]] :
         d \in SummaryRegisterPayloads }
    \cup { [postData |-> [contents |-> Json([action |-> "registerSale",
              data |-> [customerId |-> Str(IdC1), quantity |-> qa[1], amountPaid |-> qa[2]]])]] :
                 qa \in { <<Num(3), Num(10000)>>, <<Num(1), Num(0)>>, <<Num(1), Num(5000)>> } }
    \cup { [postData |-> [contents |-> Json([action |-> "registerSale",
              data |-> [customerId |-> Str(IdC1), quantity |-> qa[1], amountPaid |-> qa[2],
                        unit_price |-> Num(5000)]])]] :
                 qa \in { <<Num(3), Num(10000)>>, <<Num(1), Num(0)>>, <<Num(1), Num(5000)>> } }

NextPriced ==
    \/ DoGet([parameter |-> [action |-> "setup"]])
    \/ \E e \in PricedEvents : DoPost(e)
    \/ Return
    \/ Tick

SpecPriced == Init /\ [][NextPriced]_vars

(***************************************************************************)
(* Every operation of the program, request after request                   *)
(***************************************************************************)
NextOperations ==
    \/ SetupSpreadsheets
    \/ \E data \in LedgerRegisterPayloads : RegisterCustomer(data)
    \/ \E data \in LedgerUpdatePayloads : UpdateCustomer(data)
    \/ \E call \in SummarySaleRequests \cup { <<Str(IdC1), Num(0), Num(0)>> } :
          RegisterSale(call[1], call[2], call[3])
    \/ UpdateSalesSummary
    \/ Return
    \/ Tick

SpecOperations == Init /\ [][NextOperations]_vars

(***************************************************************************)
(* Two requests executing at once. While they run, request holds the two   *)
(* calls and response holds, for each, where its execution stands (pc),    *)
(* what it has read and built so far, and its result once it is done.      *)
(* A step is one read or one write of the spreadsheet.                     *)
(***************************************************************************)
\* the key of the counter a call allocates from, and the letter of its ids
CounterOf(call) ==
    IF call.op = "registerCustomer"
    THEN [key |-> "last_customer_id_number", prefix |-> <<"C">>, id |-> "customer_id"]
    ELSE [key |-> "last_sale_id_number", prefix |-> <<"S">>, id |-> "sale_id"]

\* pairs of calls: the same phone twice, two phones, two sales, one of each
OverlapCalls ==
    LET Customer(name, phone, email) ==
            [op |-> "registerCustomer",
             data |-> [first_name |-> Str(name), last_name |-> Str(NameZ),
                       phone |-> Str(phone), email |-> email]]
        Sale(quantity, amountPaid) ==
            [op |-> "registerSale", customerId |-> Str(IdC1),
             quantity |-> Num(quantity), amountPaid |-> Num(amountPaid)]
    IN  { <<Customer(NameAl, PhoneB, Str(EmailA)), Customer(NameBo, PhoneB, Undefined)>>,
          <<Customer(NameAl, PhoneB, Str(EmailA)), Customer(NameBo, PhoneC, Undefined)>>,
          <<Sale(1, 0), Sale(1, 15000)>>,
          <<Customer(NameBo, PhoneC, Undefined), Sale(1, 0)>> }

\* two requests arrive together; acceptable notes, for each, whether it would
\* succeed if it ran alone on the spreadsheet as it is when they arrive
Overlap(calls) ==
    /\ Idle
    /\ HasSheet(ss, SettingsName)
    /\ Len(CustomerRows(ss)) + CountSaleRows(SalesSheets(ss)) < MaxCustomers
    /\ request' = [op |-> "overlapping", calls |-> calls,
                   acceptable |->
                       [p \in {1, 2} |->
                           IF calls[p].op = "registerCustomer"
                           THEN registerCustomer(ss, now, calls[p].data).response.success
                           ELSE registerSale(ss, now, calls[p].customerId, calls[p].quantity,
                                             calls[p].amountPaid).response.success]]
    /\ response' = [p \in {1, 2} |->
                      [pc |-> "check", record |-> Null, lastIdNum |-> Null, id |-> <<>>,
                       result |-> Undefined, beganAfterDone |-> FALSE,
                       checkedAfterAppend |-> FALSE, readAfterWrite |-> FALSE]]
    /\ UNCHANGED <<ss, now>>

\* the validation and the duplicate checks of call p, all that precedes the
\* allocation of its id (part_004:256-289, Sales.js:191)
Check(p) ==
    /\ request.op = "overlapping"
    /\ response[p].pc = "check"
    /\ LET call == request.calls[p]
           r == IF call.op = "registerCustomer"
                THEN registerCustomer(ss, now, call.data)
                ELSE registerSale(ss, now, call.customerId, call.quantity, call.amountPaid)
           seen == [response[p] EXCEPT
                       !.beganAfterDone = response[3 - p].pc = "done",
                       !.checkedAfterAppend = /\ response[3 - p].pc = "done"
                                              /\ response[3 - p].result.success]
       IN  response' =
              [response EXCEPT ![p] =
                  IF ~r.response.success
                  THEN [seen EXCEPT !.pc = "done", !.result = r.response]
                  ELSE [seen EXCEPT
                           !.pc = IF call.op = "registerCustomer" THEN "read" ELSE "sheet",
                           !.record = IF call.op = "registerCustomer"
                                      THEN r.response.customer ELSE r.response.sale]]
    /\ UNCHANGED <<ss, now, request>>

\* _getSalesSheetForMonth(month) of a registerSale (Sales.js:205)
EnsureSheet(p) ==
    /\ request.op = "overlapping"
    /\ response[p].pc = "sheet"
    /\ ss' = _getSalesSheetForMonth(ss, FormatMonth(now)).ss
    /\ response' = [response EXCEPT ![p].pc = "read"]
    /\ UNCHANGED <<now, request>>

\* parseInt(data[lastIdNumRow][1], 10) on the values just read (part_004:69-81)
ReadCounter(p) ==
    /\ request.op = "overlapping"
    /\ response[p].pc = "read"
    /\ response' = [response EXCEPT
          ![p].pc = "write",
          ![p].lastIdNum =
              LET rows == GetSheet(ss, SettingsName).rows
              IN  ParseInt(rows[CHOOSE i \in 1..Len(rows) :
                                   rows[i][1] = CounterOf(request.calls[p]).key][2]),
          ![p].readAfterWrite = /\ request.calls[3 - p].op = request.calls[p].op
                                /\ response[3 - p].id # <<>>]
    /\ UNCHANGED <<ss, now, request>>

\* variant: the new value of the counter is not stored
SetCounter_Dropped(S, key, value) == S

\* settingsSheet.getRange(lastIdNumRow + 1, 2).setValue(nextIdNum)
SetCounter(S, key, value) ==
    LET k == SheetIndex(S, SettingsName)
        r == CHOOSE i \in 1..Len(S[k].rows) : S[k].rows[i][1] = key
    IN  [S EXCEPT ![k].rows[r][2] = value]

\* lastIdNum + 1 is written back and becomes the id (part_004:82-85)
WriteCounter(p) ==
    /\ request.op = "overlapping"
    /\ response[p].pc = "write"
    /\ LET counter == CounterOf(request.calls[p])
           nextIdNum == PlusOne(response[p].lastIdNum)
       IN  /\ ss' = SetCounter(ss, counter.key, nextIdNum)
           /\ response' = [response EXCEPT
                 ![p].pc = "append",
                 ![p].id = counter.prefix \o PadStart5(ToStr(nextIdNum))]
    /\ UNCHANGED <<now, request>>

\* sheet.appendRow(newRow) and the return (part_004:296-309, Sales.js:209-233)
AppendOwnRow(p) ==
    /\ request.op = "overlapping"
    /\ response[p].pc = "append"
    /\ LET call == request.calls[p]
           object == [response[p].record EXCEPT ![CounterOf(call).id] = Str(response[p].id)]
           name == IF call.op = "registerCustomer" THEN CustomersName
                   ELSE SalesSheetName(FormatMonth(now))
       IN  /\ ss' = AppendRow(ss, name, ObjectToRow(GetSheet(ss, name).header, object))
           /\ response' = [response EXCEPT
                 ![p].pc = "done",
                 ![p].result = IF call.op = "registerCustomer"
                               THEN [success |-> TRUE, customer |-> object]
                               ELSE [success |-> TRUE, sale |-> object]]
    /\ UNCHANGED <<now, request>>

\* both requests have been answered
Finish ==
    /\ request.op = "overlapping"
    /\ \A p \in {1, 2} : response[p].pc = "done"
    /\ request' = NoRequest
    /\ response' = Undefined
    /\ UNCHANGED <<ss, now>>

NextRace ==
    \/ SetupSpreadsheets
    \/ \E data \in SummaryRegisterPayloads : RegisterCustomer(data)
    \/ request.op # "overlapping" /\ Return
    \/ \E calls \in OverlapCalls : Overlap(calls)
    \/ \E p \in {1, 2} : Check(p)
    \/ \E p \in {1, 2} : EnsureSheet(p)
    \/ \E p \in {1, 2} : ReadCounter(p)
    \/ \E p \in {1, 2} : WriteCounter(p)
    \/ \E p \in {1, 2} : AppendOwnRow(p)
    \/ Finish

SpecRace == Init /\ [][NextRace]_vars

(***************************************************************************)
(* The monthly sheets asked for directly, as test_getSalesSheetForMonth    *)
(* does, between registrations of sales                                    *)
(***************************************************************************)
GetSalesSheetForMonth(month) ==
    /\ Idle
    /\ \E r \in {_getSalesSheetForMonth(ss, month)} :
          /\ ss' = r.ss
          /\ response' = Str(r.name)
    /\ request' = [op |-> "_getSalesSheetForMonth", month |-> month]
    /\ UNCHANGED now

\* the months of the clock and the one after them
NextMonths ==
    \/ SetupSpreadsheets
    \/ \E data \in SummaryRegisterPayloads : RegisterCustomer(data)
    \/ \E amountPaid \in {0, 15000} : RegisterSale(Str(IdC1), Num(1), Num(amountPaid))
    \/ \E t \in 0..(MaxTime + 1) : GetSalesSheetForMonth(FormatMonth(t))
    \/ Return
    \/ Tick

SpecMonths == Init /\ [][NextMonths]_vars

(***************************************************************************)
(* Reading the sheets                                                      *)
(***************************************************************************)
CustomerCell(row, column) == row[IndexOf(CustomersHeader, column)]
SaleCell(row, column) == row[IndexOf(SalesHeader, column)]

\* the value stored under key in the settings sheet
SettingCell(S, key) ==
    LET rows == GetSheet(S, SettingsName).rows
    IN  rows[CHOOSE i \in 1..Len(rows) : rows[i][1] = key][2]

\* every sale row of every monthly sheet
AllSaleRows(S) == UNION {Range(S[i].rows) : i \in {k \in 1..Len(S) : IsSalesSheet(S[k])}}

StoredPhones(S) == {DigitsOnly(ToStr(CustomerCell(row, "phone"))) : row \in Range(CustomerRows(S))}
StoredEmails(S) ==
    {ToLowerCase(ToStr(CustomerCell(row, "email"))) : row \in Range(CustomerRows(S))} \ {<<>>}
StoredCustomerIds(S) == {CustomerCell(row, "customer_id") : row \in Range(CustomerRows(S))}

RegisterCustomerAnswered == request.op = "registerCustomer"
RegisterSaleAnswered == request.op = "registerSale"

(***************************************************************************)
(* C1. No two customer rows have the same normalized phone, and no two     *)
(* rows that both have an email have the same email, compared without      *)
(* regard to case.                                                         *)
(***************************************************************************)
C1_UniquePhoneAndEmail ==
    LET rows == CustomerRows(ss)
    IN  \A i, j \in 1..Len(rows) :
            i # j =>
              /\ DigitsOnly(ToStr(CustomerCell(rows[i], "phone")))
                    # DigitsOnly(ToStr(CustomerCell(rows[j], "phone")))
              /\ (CustomerCell(rows[i], "email") # EmptyStr /\ CustomerCell(rows[j], "email") # EmptyStr)
                    => ToLowerCase(ToStr(CustomerCell(rows[i], "email")))
                          # ToLowerCase(ToStr(CustomerCell(rows[j], "email")))

\* two customers with emails, and an update that asked for the other one's email
C1_Witness ==
    /\ Len(CustomerRows(ss)) >= 2
    /\ \A row \in Range(CustomerRows(ss)) : CustomerCell(row, "email") # EmptyStr
    /\ request.op = "updateCustomer"
    /\ response = [success |-> FALSE, error |-> "Email already exists."]

(***************************************************************************)
(* C2. No two customer rows share a customer_id.                           *)
(***************************************************************************)
C2_UniqueCustomerIds ==
    LET rows == CustomerRows(ss)
    IN  \A i, j \in 1..Len(rows) :
            i # j => CustomerCell(rows[i], "customer_id") # CustomerCell(rows[j], "customer_id")

C2_Witness ==
    /\ Len(CustomerRows(ss)) >= 2
    /\ RegisterCustomerAnswered
    /\ response.success

(***************************************************************************)
(* C3. After k successful registrations the customer_ids, in row order,    *)
(* are C00001 .. C0000k, and the counter reads k, whatever attempts were   *)
(* rejected in between.                                                    *)
(***************************************************************************)
IdC4 == <<"C", "0", "0", "0", "0", "4">>
ExpectedCustomerIds == <<IdC1, IdC2, IdC3, IdC4>>

C3_SequentialCustomerIds ==
    LET rows == CustomerRows(ss)
    IN  /\ \A i \in 1..Len(rows) : CustomerCell(rows[i], "customer_id") = Str(ExpectedCustomerIds[i])
        /\ HasSheet(ss, SettingsName) =>
              ParseInt(SettingCell(ss, "last_customer_id_number")) = Num(Len(rows))

\* a rejected attempt after two registrations succeeded
C3_Witness ==
    /\ Len(CustomerRows(ss)) >= 2
    /\ RegisterCustomerAnswered
    /\ ~response.success

(***************************************************************************)
(* C4. A registerCustomer call whose phone or email is already stored.     *)
(***************************************************************************)
UniquenessErrors ==
    { "Customer with this phone number already exists",
      "Customer with this email already exists" }

\* the call's normalized phone, or its normalized email when one is given,
\* is that of a stored customer
DuplicatesStored(S, data) ==
    \/ /\ _phoneValidator(data.phone).success
       /\ _phoneValidator(data.phone).value.v \in StoredPhones(S)
    \/ /\ ~Falsy(data.email)
       /\ _emailValidator(data.email).success
       /\ _emailValidator(data.email).value.v \in StoredEmails(S)

\* the call is acceptable but for the duplicate: names, phone and email are well formed
WellFormedRegistration(data) ==
    /\ ~Falsy(OptTrim(data.first_name))
    /\ ~Falsy(OptTrim(data.last_name))
    /\ _phoneValidator(data.phone).success
    /\ Falsy(data.email) \/ _emailValidator(data.email).success

RejectedWithoutWrite ==
    /\ response'.success = FALSE
    /\ CustomerRows(ss') = CustomerRows(ss)
    /\ SettingCell(ss', "last_customer_id_number") = SettingCell(ss, "last_customer_id_number")

\* C4 as stated: every such call fails with a uniqueness error, appends no row
\* and leaves last_customer_id_number unchanged.
C4_AsStated ==
    [][ (Idle /\ request'.op = "registerCustomer" /\ DuplicatesStored(ss, request'.data))
            => (RejectedWithoutWrite /\ response'.error \in UniquenessErrors) ]_vars

\* C4 amended: every such call fails, appends no row and leaves
\* last_customer_id_number unchanged; the error is a uniqueness error when the
\* call's names, phone and email are well formed.
C4_DuplicateRejected ==
    [][ (Idle /\ request'.op = "registerCustomer" /\ DuplicatesStored(ss, request'.data))
            => /\ RejectedWithoutWrite
               /\ WellFormedRegistration(request'.data) => response'.error \in UniquenessErrors ]_vars

\* a well-formed call with a new phone and a stored email, written in another case
C4_Witness ==
    /\ RegisterCustomerAnswered
    /\ request.data.email = Str(EmailAUpper)
    /\ response = [success |-> FALSE, error |-> "Customer with this email already exists"]

(***************************************************************************)
(* C5. After a registration with a phone and an email succeeds, looking    *)
(* the customer up by that phone, by that email and by the returned id     *)
(* each gives a record with the returned customer_id.                      *)
(***************************************************************************)
C5_RoundTrip ==
    (RegisterCustomerAnswered /\ response.success /\ ~Falsy(request.data.email)) =>
        LET id == response.customer.customer_id
            byPhone == findCustomerByPhone(ss, request.data.phone)
            byEmail == findCustomerByEmail(ss, request.data.email)
            byId == findCustomerById(ss, id)
        IN  /\ byPhone # Null /\ byPhone.customer_id = id
            /\ byEmail # Null /\ byEmail.customer_id = id
            /\ byId # Null /\ byId.customer_id = id

\* the second customer, registered with a formatted phone and an upper-case email
C5_Witness ==
    /\ RegisterCustomerAnswered
    /\ response.success
    /\ request.data.phone = Str(PhoneAFormatted)
    /\ request.data.email = Str(EmailAUpper)
    /\ response.customer.customer_id = Str(IdC2)
    /\ findCustomerByEmail(ss, request.data.email).customer_id = Str(IdC2)

(***************************************************************************)
(* C6. Every sale a successful registerSale returns, and every sale row of *)
(* every monthly sheet, has 0 <= amount_paid <= total_price, total_price = *)
(* quantity * unit_price with quantity > 0, and pending_balance =          *)
(* total_price - amount_paid.  Cells are read as numbers, as the code      *)
(* reads them (Number(cell), an empty cell being 0).                       *)
(***************************************************************************)
AmountsConsistent(quantity, unit_price, total_price, amount_paid, pending_balance) ==
    /\ {quantity.t, unit_price.t, total_price.t, amount_paid.t, pending_balance.t} = {"number"}
    /\ quantity.v > 0
    /\ total_price.v = quantity.v * unit_price.v
    /\ 0 <= amount_paid.v /\ amount_paid.v <= total_price.v
    /\ pending_balance.v = total_price.v - amount_paid.v

C6_SaleAmounts ==
    /\ (RegisterSaleAnswered /\ response.success) =>
          AmountsConsistent(response.sale.quantity, response.sale.unit_price,
                            response.sale.total_price, response.sale.amount_paid,
                            response.sale.pending_balance)
    /\ \A row \in AllSaleRows(ss) :
          AmountsConsistent(ToNumber(SaleCell(row, "quantity")),
                            ToNumber(SaleCell(row, "unit_price")),
                            ToNumber(SaleCell(row, "total_price")),
                            ToNumber(SaleCell(row, "amount_paid")),
                            ToNumber(SaleCell(row, "pending_balance")))

\* a sale of two units, half paid
C6_Witness ==
    /\ RegisterSaleAnswered
    /\ response.success
    /\ response.sale.total_price = Num(30000)
    /\ response.sale.amount_paid = Num(15000)
    /\ response.sale.pending_balance = Num(15000)

(***************************************************************************)
(* C7. The status of a sale is decided by total_price and amount_paid      *)
(* alone: Paid exactly when amount_paid >= total_price, Partial exactly    *)
(* when 0 < amount_paid < total_price, Unpaid exactly when amount_paid is  *)
(* 0; exactly one of the three holds of every accepted sale.               *)
(***************************************************************************)
StatusAgrees(status, total_price, amount_paid) ==
    /\ status \in {Str(StatusPaid), Str(StatusPartial), Str(StatusUnpaid)}
    /\ status = Str(StatusPaid) <=> amount_paid.v >= total_price.v
    /\ status = Str(StatusPartial) <=> (0 < amount_paid.v /\ amount_paid.v < total_price.v)
    /\ status = Str(StatusUnpaid) <=> amount_paid.v = 0

C7_StatusFromAmounts ==
    /\ (RegisterSaleAnswered /\ response.success) =>
          StatusAgrees(response.sale.status, response.sale.total_price, response.sale.amount_paid)
    /\ \A row \in AllSaleRows(ss) :
          StatusAgrees(SaleCell(row, "status"), ToNumber(SaleCell(row, "total_price")),
                       ToNumber(SaleCell(row, "amount_paid")))

\* a ledger holding a fully paid sale and an unpaid one
C7_Witness ==
    /\ \E row \in AllSaleRows(ss) : SaleCell(row, "status") = Str(StatusPaid)
    /\ \E row \in AllSaleRows(ss) : SaleCell(row, "status") = Str(StatusUnpaid)

(***************************************************************************)
(* C8. A registerSale call that breaks an input rule returns success:false *)
(* with a validation error and writes nothing: no sale row, no new ledger  *)
(* sheet, last_sale_id_number unchanged.                                   *)
(***************************************************************************)
ValidationErrors ==
    { "Missing required fields: customerId, quantity, amountPaid",
      "Customer ID is not in the correct format.",
      "Customer with ID does not exist.",
      "Quantity and amountPaid must be integers.",
      "Quantity must be greater than 0.",
      "Amount paid cannot be a negative number.",
      "Amount paid cannot be greater than the total price." }

IsInteger(x) == x.t = "number"

\* the rules of the claim, on the call's arguments and the customers stored
BreaksSaleRule(S, customerId, quantity, amountPaid) ==
    \/ customerId \in {Undefined, Null, EmptyStr}
    \/ ~(Len(ToStr(customerId)) = 6 /\ Head(ToStr(customerId)) = "C"
            /\ \A i \in 2..6 : IsDigit(ToStr(customerId)[i]))
    \/ customerId \notin StoredCustomerIds(S)
    \/ ~IsInteger(quantity)
    \/ ~IsInteger(amountPaid)
    \/ quantity.v <= 0
    \/ amountPaid.v < 0
    \/ amountPaid.v > quantity.v * 15000

C9_SalesReferenceCustomers ==
    \A row \in AllSaleRows(ss) : SaleCell(row, "customer_id") \in StoredCustomerIds(ss)

\* sales of the first customer, whose row an update has since rewritten
C9_Witness ==
    /\ \E row \in AllSaleRows(ss) : SaleCell(row, "customer_id") = Str(IdC1)
    /\ \E row \in Range(CustomerRows(ss)) :
          /\ CustomerCell(row, "customer_id") = Str(IdC1)
          /\ CustomerCell(row, "email") = Str(EmailB)

(***************************************************************************)
(* C10. No two sale rows of the same monthly sheet have the same sale_id.  *)
(***************************************************************************)
C10_UniqueSaleIdsPerSheet ==
    \A k \in 1..Len(ss) :
        IsSalesSheet(ss[k]) =>
            \A i, j \in 1..Len(ss[k].rows) :
                i # j => SaleCell(ss[k].rows[i], "sale_id") # SaleCell(ss[k].rows[j], "sale_id")

\* a monthly sheet with two sales, the last call having been refused
C10_Witness ==
    /\ \E k \in 1..Len(ss) : IsSalesSheet(ss[k]) /\ Len(ss[k].rows) >= 2
    /\ RegisterSaleAnswered
    /\ ~response.success

(***************************************************************************)
(* C11. A successful registerSale appends exactly one row, to the sheet of *)
(* the calendar month of the call, which it creates with the sales header  *)
(* when absent; the rows of every other monthly sheet, the customers sheet *)
(* and the summary sheet are unchanged.                                    *)
(***************************************************************************)
\* the sheet names of the months the clock can show, written out
SegmentOfMonth ==
    << <<"s", "a", "l", "e", "s", "_", "2", "0", "2", "5", "_", "0", "1">>,
       <<"s", "a", "l", "e", "s", "_", "2", "0", "2", "5", "_", "0", "2">>,
       <<"s", "a", "l", "e", "s", "_", "2", "0", "2", "5", "_", "0", "3">>,
       <<"s", "a", "l", "e", "s", "_", "2", "0", "2", "5", "_", "0", "4">> >>

RowsOf(S, name) == IF HasSheet(S, name) THEN GetSheet(S, name).rows ELSE <<>>

SheetNames(S) == {S[i].name : i \in 1..Len(S)}

C11_SaleAppendsToMonthSheet ==
    [][ (Idle /\ request'.op = "registerSale" /\ response'.success) =>
          LET segment == SegmentOfMonth[now + 1]
          IN  /\ HasSheet(ss', segment)
              /\ GetSheet(ss', segment).header = SalesHeader
              /\ Len(RowsOf(ss', segment)) = Len(RowsOf(ss, segment)) + 1
              /\ SubSeq(RowsOf(ss', segment), 1, Len(RowsOf(ss, segment))) = RowsOf(ss, segment)
              /\ SaleCell(RowsOf(ss', segment)[Len(RowsOf(ss', segment))], "sale_id")
                    = response'.sale.sale_id
              /\ SheetNames(ss') = SheetNames(ss) \cup {segment}
              /\ \A name \in SheetNames(ss) \ {segment, SettingsName} :
                    GetSheet(ss', name) = GetSheet(ss, name) ]_vars

\* the first sale of the second month, the first month's sheet holding a sale
C11_Witness ==
    /\ RegisterSaleAnswered
    /\ response.success
    /\ now = 1
    /\ Len(RowsOf(ss, SegmentOfMonth[1])) = 1
    /\ Len(RowsOf(ss, SegmentOfMonth[2])) = 1

(***************************************************************************)
(* C12. Right after updateSalesSummary the summary holds exactly one entry *)
(* per existing monthly sheet and nothing else; an entry is pending        *)
(* exactly when some sale row of its sheet has pending_balance > 0, and    *)
(* settled otherwise, a sheet without sale rows included.                  *)
(***************************************************************************)
Segments(S) == SheetNames(S) \cap Range(SegmentOfMonth)

SummaryRows(S) == RowsOf(S, SummaryName)

OwesMoney(row) ==
    /\ ToNumber(SaleCell(row, "pending_balance")).t = "number"
    /\ ToNumber(SaleCell(row, "pending_balance")).v > 0

UpdateSalesSummaryAnswered == request.op = "updateSalesSummary"

C12_SummaryRebuilt ==
    (UpdateSalesSummaryAnswered /\ HasSheet(ss, SummaryName)) =>
        LET rows == SummaryRows(ss)
        IN  /\ Len(rows) = Cardinality(Segments(ss))
            /\ {rows[i][1] : i \in 1..Len(rows)} = {Str(name) : name \in Segments(ss)}
            /\ \A i \in 1..Len(rows) :
                  /\ rows[i][2] \in {Str(SummaryPending), Str(SummarySettled)}
                  /\ rows[i][2] = Str(SummaryPending)
                        <=> \E row \in Range(RowsOf(ss, rows[i][1].v)) : OwesMoney(row)

\* a rebuild over a month with an unpaid sale and a month whose sheet is empty
C12_Witness ==
    /\ UpdateSalesSummaryAnswered
    /\ <<Str(SegmentOfMonth[1]), Str(SummaryPending)>>
          \in {<<row[1], row[2]>> : row \in Range(SummaryRows(ss))}
    /\ <<Str(SegmentOfMonth[2]), Str(SummarySettled)>>
          \in {<<row[1], row[2]>> : row \in Range(SummaryRows(ss))}
    /\ HasSheet(ss, SegmentOfMonth[2])
    /\ RowsOf(ss, SegmentOfMonth[2]) = <<>>

(***************************************************************************)
(* C13. A rebuild over a month of fully paid sales reports it settled; a   *)
(* sale with a balance registered afterwards leaves the entry settled,     *)
(* registerSale never writing to the summary, and it stays so until        *)
(* updateSalesSummary runs, which then reports the month pending.          *)
(***************************************************************************)
EntryReads(S, name, status) ==
    \E row \in Range(SummaryRows(S)) : row[1] = Str(name) /\ row[2] = Str(status)

FullyPaid(S, name) ==
    /\ RowsOf(S, name) # <<>>
    /\ \A row \in Range(RowsOf(S, name)) : ~OwesMoney(row)

\* the entry reads settled while the month holds a sale with a balance
Stale(S, name) ==
    /\ EntryReads(S, name, SummarySettled)
    /\ \E row \in Range(RowsOf(S, name)) : OwesMoney(row)

C13_StaleUntilRebuilt ==
    [][ \A name \in Range(SegmentOfMonth) :
          /\ (request'.op = "updateSalesSummary" /\ HasSheet(ss, SummaryName) /\ FullyPaid(ss, name))
                => EntryReads(ss', name, SummarySettled)
          /\ (request'.op = "registerSale") => SummaryRows(ss') = SummaryRows(ss)
          /\ (Stale(ss, name) /\ request'.op # "updateSalesSummary") => Stale(ss', name)
          /\ (Stale(ss, name) /\ request'.op = "updateSalesSummary")
                => /\ EntryReads(ss', name, SummaryPending)
                   /\ ~EntryReads(ss', name, SummarySettled) ]_vars

\* a partly paid sale has just joined a paid one in a month the summary calls settled
C13_Witness ==
    /\ RegisterSaleAnswered
    /\ response.success
    /\ response.sale.pending_balance = Num(15000)
    /\ Stale(ss, SegmentOfMonth[1])
    /\ Len(RowsOf(ss, SegmentOfMonth[1])) = 2
    /\ ~OwesMoney(RowsOf(ss, SegmentOfMonth[1])[1])

(***************************************************************************)
(* C14. listPendingSales returns exactly the sale rows with                *)
(* pending_balance > 0 of the monthly sheets the stored summary marks      *)
(* pending.                                                                *)
(***************************************************************************)
PendingSalesOfPendingMonths(S) ==
    UNION { {row \in Range(RowsOf(S, name)) : OwesMoney(row)} :
              name \in {n \in Segments(S) : EntryReads(S, n, SummaryPending)} }

C14_ListPendingSales ==
    (request.op = "listPendingSales") =>
        /\ response # Undefined
        /\ response.t = "array"
        /\ Range(response.v) = PendingSalesOfPendingMonths(ss)

(***************************************************************************)
(* C15. The phone validator removes every non-digit character, removes a   *)
(* leading 1 when exactly 11 digits result, succeeds exactly when 10       *)
(* digits then remain, and returns those 10 digits; inputs that differ     *)
(* only in punctuation or in the leading 1 therefore get the same value.   *)
(***************************************************************************)
DecimalDigits == {"0", "1", "2", "3", "4", "5", "6", "7", "8", "9"}

DigitsOf(s) == SelectSeq(s, LAMBDA c : c \in DecimalDigits)

WithoutCountryCode(d) == IF Len(d) = 11 /\ d[1] = "1" THEN Tail(d) ELSE d

PhoneValidatorAnswered == request.op = "_phoneValidator"

C15_PhoneNormalized ==
    (PhoneValidatorAnswered /\ TypeOf(request.phone) = "string") =>
        LET national == WithoutCountryCode(DigitsOf(request.phone.v))
        IN  /\ response.success <=> Len(national) = 10
            /\ response.success => response.value = Str(national)

\* the part of C15 the code keeps: without a country code, punctuation is ignored
C15_PunctuationIgnored ==
    (PhoneValidatorAnswered /\ TypeOf(request.phone) = "string") =>
        LET digits == DigitsOf(request.phone.v)
        IN  /\ response.success <=> Len(digits) = 10
            /\ response.success => response.value = Str(digits)

(***************************************************************************)
(* C16. updateCustomer fails atomically: a call in which a supplied phone  *)
(* or email is malformed or belongs to another customer answers            *)
(* success:false, and a call that answers success:false leaves the stored  *)
(* rows as they were, a valid new phone sent along included.               *)
(***************************************************************************)
HasNoAtSign(s) == \A i \in 1..Len(s) : s[i] # "@"

\* the stored rows of the customers other than customer_id
OtherCustomers(S, customer_id) ==
    {row \in Range(CustomerRows(S)) : CustomerCell(row, "customer_id") # customer_id}

PhoneIsMalformed(phone) ==
    TypeOf(phone) = "string" /\ Len(WithoutCountryCode(DigitsOf(phone.v))) # 10

PhoneIsTaken(S, customer_id, phone) ==
    /\ TypeOf(phone) = "string"
    /\ \E row \in OtherCustomers(S, customer_id) :
          DigitsOf(ToStr(CustomerCell(row, "phone"))) = DigitsOf(phone.v)

EmailIsMalformed(email) == TypeOf(email) = "string" /\ HasNoAtSign(email.v)

EmailIsTaken(S, customer_id, email) ==
    /\ TypeOf(email) = "string"
    /\ \E row \in OtherCustomers(S, customer_id) :
          ToLowerCase(Trim(ToStr(CustomerCell(row, "email")))) = ToLowerCase(Trim(email.v))

SuppliedFieldRejected(S, data) ==
    \/ PhoneIsMalformed(data.phone)
    \/ PhoneIsTaken(S, data.customer_id, data.phone)
    \/ EmailIsMalformed(data.email)
    \/ EmailIsTaken(S, data.customer_id, data.email)

C16_UpdateFailsAtomically ==
    [][ request'.op = "updateCustomer" =>
          /\ SuppliedFieldRejected(ss, request'.data) => ~response'.success
          /\ ~response'.success => ss' = ss ]_vars

\* an existing customer, a valid phone nobody holds and a malformed or taken email
C16_Witness ==
    /\ request.op = "updateCustomer"
    /\ ~response.success
    /\ request.data.customer_id \in {CustomerCell(row, "customer_id") : row \in Range(CustomerRows(ss))}
    /\ ~PhoneIsMalformed(request.data.phone)
    /\ TypeOf(request.data.phone) = "string"
    /\ DigitsOf(request.data.phone.v) \notin StoredPhones(ss)
    /\ \/ EmailIsMalformed(request.data.email)
       \/ EmailIsTaken(ss, request.data.customer_id, request.data.email)

(***************************************************************************)
(* C17. updateCustomer compares a new phone or email with the other        *)
(* customers only: a call that supplies the customer's own current phone   *)
(* or email is accepted, and a call that supplies a phone or email held by *)
(* a different customer is rejected with an error and changes nothing.     *)
(***************************************************************************)
CustomerRowsOf(S, customer_id) ==
    {row \in Range(CustomerRows(S)) : CustomerCell(row, "customer_id") = customer_id}

IsOwnPhone(S, customer_id, phone) ==
    /\ TypeOf(phone) = "string"
    /\ \E row \in CustomerRowsOf(S, customer_id) :
          DigitsOf(ToStr(CustomerCell(row, "phone"))) = DigitsOf(phone.v)

IsOwnEmail(S, customer_id, email) ==
    /\ TypeOf(email) = "string"
    /\ Trim(email.v) # <<>>
    /\ \E row \in CustomerRowsOf(S, customer_id) :
          ToLowerCase(Trim(ToStr(CustomerCell(row, "email")))) = ToLowerCase(Trim(email.v))

IsBlankName(name) == TypeOf(name) = "string" /\ Trim(name.v) = <<>>

\* the call supplies the customer's own phone or email, and no other phone or email
SuppliesOnlyOwn(S, data) ==
    /\ IsOwnPhone(S, data.customer_id, data.phone) \/ IsOwnEmail(S, data.customer_id, data.email)
    /\ data.phone = Undefined \/ IsOwnPhone(S, data.customer_id, data.phone)
    /\ data.email = Undefined \/ IsOwnEmail(S, data.customer_id, data.email)
    /\ ~IsBlankName(data.first_name)
    /\ ~IsBlankName(data.last_name)

C17_UniqueAgainstOthersOnly ==
    [][ (request'.op = "updateCustomer" /\ CustomerRowsOf(ss, request'.data.customer_id) # {}) =>
          LET data == request'.data
          IN  /\ SuppliesOnlyOwn(ss, data) =>
                    /\ response'.success
                    /\ \A row \in CustomerRowsOf(ss', data.customer_id) :
                          /\ IsOwnPhone(ss, data.customer_id, CustomerCell(row, "phone"))
                          /\ data.email # Undefined
                                => IsOwnEmail(ss, data.customer_id, CustomerCell(row, "email"))
              /\ (\/ PhoneIsTaken(ss, data.customer_id, data.phone)
                  \/ EmailIsTaken(ss, data.customer_id, data.email)) =>
                    /\ ~response'.success
                    /\ "error" \in DOMAIN response'
                    /\ response'.error # ""
                    /\ ss' = ss ]_vars

\* the first of two customers was sent its own phone, written with dashes,
\* and its own email, written in capitals
C17_Witness ==
    /\ request.op = "updateCustomer"
    /\ response.success
    /\ Len(CustomerRows(ss)) = 2
    /\ request.data.customer_id = Str(IdC1)
    /\ request.data.phone = Str(PhoneAFormatted)
    /\ request.data.email = Str(EmailAUpper)
    /\ CustomerCell(CustomerRows(ss)[2], "email") # EmptyStr

(***************************************************************************)
(* C18. Over registerCustomer and updateCustomer calls a stored row keeps  *)
(* its customer_id and its registered_at for ever, and an update of one    *)
(* customer changes the row of no other customer.                          *)
(***************************************************************************)
C18_IdAndStampImmutable ==
    [][ LET old == CustomerRows(ss)
            new == CustomerRows(ss')
        IN  /\ Len(new) >= Len(old)
            /\ \A i \in 1..Len(old) :
                  /\ CustomerCell(new[i], "customer_id") = CustomerCell(old[i], "customer_id")
                  /\ CustomerCell(new[i], "registered_at") = CustomerCell(old[i], "registered_at")
            /\ request'.op = "updateCustomer" =>
                  /\ Len(new) = Len(old)
                  /\ \A i \in 1..Len(old) :
                        CustomerCell(old[i], "customer_id") # request'.data.customer_id
                            => new[i] = old[i] ]_vars

\* two customers registered at different times; an update gave one of them
\* a new phone and carried a registered_at of its own
C18_Witness ==
    /\ request.op = "updateCustomer"
    /\ response.success
    /\ request.data.registered_at = Str(StampX)
    /\ request.data.phone = Str(PhoneC)
    /\ Len(CustomerRows(ss)) = 2
    /\ CustomerCell(CustomerRows(ss)[1], "registered_at")
          # CustomerCell(CustomerRows(ss)[2], "registered_at")
    /\ \E row \in CustomerRowsOf(ss, request.data.customer_id) :
          CustomerCell(row, "phone") = Str(PhoneC)

(***************************************************************************)
(* C19. While the counter of an id is missing (no settings sheet, no row   *)
(* for its key) or holds something that is not a number, registerCustomer  *)
(* and registerSale answer success:false and write no row whose id is      *)
(* malformed or already in use.                                            *)
(***************************************************************************)
IsNumeral(cell) ==
    \/ cell.t = "number"
    \/ cell.t = "string" /\ cell.v # <<>> /\ \A i \in 1..Len(cell.v) : cell.v[i] \in DecimalDigits

CounterUnusable(S, key) ==
    \/ ~HasSheet(S, SettingsName)
    \/ \A row \in Range(GetSheet(S, SettingsName).rows) : row[1] # key
    \/ ~IsNumeral(SettingCell(S, key))

\* a letter followed by five digits
IsWellFormedId(cell, letter) ==
    /\ cell.t = "string"
    /\ Len(cell.v) = 6
    /\ cell.v[1] = letter
    /\ \A i \in 2..6 : cell.v[i] \in DecimalDigits

CustomerIdAt(S, i) == CustomerCell(CustomerRows(S)[i], "customer_id")

SaleIds(S) == {SaleCell(row, "sale_id") : row \in AllSaleRows(S)}

C19_AllocationFailsSafely ==
    [][ /\ (request'.op = "registerCustomer" /\ CounterUnusable(ss, "last_customer_id_number")) =>
              /\ ~response'.success
              /\ \A i \in (Len(CustomerRows(ss)) + 1)..Len(CustomerRows(ss')) :
                    /\ IsWellFormedId(CustomerIdAt(ss', i), "C")
                    /\ \A j \in 1..(i - 1) : CustomerIdAt(ss', j) # CustomerIdAt(ss', i)
        /\ (request'.op = "registerSale" /\ CounterUnusable(ss, "last_sale_id_number")) =>
              /\ ~response'.success
              /\ \A row \in AllSaleRows(ss') \ AllSaleRows(ss) :
                    /\ IsWellFormedId(SaleCell(row, "sale_id"), "S")
                    /\ SaleCell(row, "sale_id") \notin SaleIds(ss) ]_vars

\* the part of C19 the code keeps: a missing settings sheet or counter row
CounterMissing(S, key) ==
    \/ ~HasSheet(S, SettingsName)
    \/ \A row \in Range(GetSheet(S, SettingsName).rows) : row[1] # key

C19_MissingCounterFails ==
    [][ /\ (request'.op = "registerCustomer" /\ CounterMissing(ss, "last_customer_id_number")) =>
              ~response'.success /\ CustomerRows(ss') = CustomerRows(ss)
        /\ (request'.op = "registerSale" /\ CounterMissing(ss, "last_sale_id_number")) =>
              ~response'.success /\ AllSaleRows(ss') = AllSaleRows(ss) ]_vars

(***************************************************************************)
(* C20. Whatever the request, doGet and doPost return a result with a      *)
(* boolean success and never raise; for an action they do not know the     *)
(* result is success:false with an error message and nothing is changed.   *)
(***************************************************************************)
RouterAnswered == request.op \in {"doGet", "doPost"}

IsStructuredResult(r) ==
    /\ "success" \in DOMAIN r
    /\ r.success \in BOOLEAN

IsFailureResult(r) ==
    /\ IsStructuredResult(r)
    /\ ~r.success
    /\ "error" \in DOMAIN r
    /\ r.error # ""

\* the action of a request, "" when there is none to read
RequestedAction(req) ==
    LET params == IF req.op = "doGet" THEN req.e.parameter
                  ELSE IF req.e.postData = Undefined \/ ~req.e.postData.contents.parses
                  THEN Undefined
                  ELSE req.e.postData.contents.value
    IN  IF "action" \in DOMAIN params THEN params.action ELSE ""

KnownActions(op) ==
    IF op = "doGet" THEN {"setup", "getAllCustomers"}
    ELSE {"registerCustomer", "updateCustomer", "registerSale"}

C20_RouterAlwaysAnswers ==
    [][ request'.op \in {"doGet", "doPost"} =>
          /\ IsStructuredResult(response')
          /\ RequestedAction(request') \notin KnownActions(request'.op) =>
                IsFailureResult(response') /\ ss' = ss ]_vars

\* the part of C20 the code keeps: every request but a POST whose body is the
\* JSON text null
C20_AnswersUnlessBodyIsNull ==
    [][ (/\ request'.op \in {"doGet", "doPost"}
         /\ request' # [op |-> "doPost", e |-> [postData |-> [contents |-> Json(Null)]]]) =>
          /\ IsStructuredResult(response')
          /\ RequestedAction(request') \notin KnownActions(request'.op) =>
                IsFailureResult(response') /\ ss' = ss ]_vars

(***************************************************************************)
(* C21. The unit_price of a sale is the one the caller supplied, the       *)
(* default constant when none was supplied, and total_price is quantity    *)
(* times it: 3 units at 5000 with 10000 paid give total_price 15000,       *)
(* pending_balance 5000 and status Partial.                                *)
(***************************************************************************)
\* the data of a registerSale request that doPost answered with success
SalePosted ==
    /\ request.op = "doPost"
    /\ request.e.postData # Undefined
    /\ request.e.postData.contents.parses
    /\ HasAction(request.e.postData.contents.value, "registerSale")
    /\ "success" \in DOMAIN response
    /\ response.success

PostedData == request.e.postData.contents.value.data

PriceAsked == IF "unit_price" \in DOMAIN PostedData THEN PostedData.unit_price.v ELSE 15000

C21_UnitPriceOverride ==
    SalePosted =>
        /\ response.sale.unit_price = Num(PriceAsked)
        /\ response.sale.total_price = Num(PostedData.quantity.v * PriceAsked)
        /\ response.sale.pending_balance
              = Num(PostedData.quantity.v * PriceAsked - PostedData.amountPaid.v)

\* the part of C21 the code keeps: without an override the default price is used
C21_DefaultUnitPrice ==
    (SalePosted /\ "unit_price" \notin DOMAIN PostedData) =>
        /\ response.sale.unit_price = Num(15000)
        /\ response.sale.total_price = Num(PostedData.quantity.v * 15000)
        /\ response.sale.pending_balance
              = Num(PostedData.quantity.v * 15000 - PostedData.amountPaid.v)

(***************************************************************************)
(* C22. A registerSale call with valid arguments made while the sale       *)
(* counter is missing (no settings sheet, no last_sale_id_number row)      *)
(* answers success:false and changes nothing: no sale row is appended and  *)
(* no sheet is created for the month.                                      *)
(***************************************************************************)
\* the arguments of a registerSale request pass every rule of the validation
SaleArgumentsValid(S, req) ==
    /\ req.customerId \in {CustomerCell(row, "customer_id") : row \in Range(CustomerRows(S))}
    /\ IsWellFormedId(req.customerId, "C")
    /\ req.quantity.t = "number"
    /\ req.amountPaid.t = "number"
    /\ req.quantity.v > 0
    /\ req.amountPaid.v >= 0
    /\ req.amountPaid.v <= req.quantity.v * 15000

C22_FailedAllocationWritesNothing ==
    [][ (/\ request'.op = "registerSale"
         /\ SaleArgumentsValid(ss, request')
         /\ CounterMissing(ss, "last_sale_id_number")) =>
            /\ ~response'.success
            /\ ss' = ss ]_vars

\* the part of C22 the code keeps: the call fails and no sale row is appended
C22_FailedAllocationAppendsNothing ==
    [][ (/\ request'.op = "registerSale"
         /\ SaleArgumentsValid(ss, request')
         /\ CounterMissing(ss, "last_sale_id_number")) =>
            /\ ~response'.success
            /\ AllSaleRows(ss') = AllSaleRows(ss)
            /\ \A i \in 1..Len(ss) : ss'[i] = ss[i] ]_vars

(***************************************************************************)
(* C23. Over registerCustomer and updateCustomer calls every stored        *)
(* customer has a first_name and a last_name that are non-empty and        *)
(* trimmed; updateCustomer rejects a name made of blanks as registration   *)
(* does.                                                                   *)
(***************************************************************************)
IsTrimmedName(cell) ==
    /\ cell.t = "string"
    /\ cell.v # <<>>
    /\ Trim(cell.v) = cell.v

C23_NamesNonEmpty ==
    \A row \in Range(CustomerRows(ss)) :
        /\ IsTrimmedName(CustomerCell(row, "first_name"))
        /\ IsTrimmedName(CustomerCell(row, "last_name"))

\* the part of C23 the code keeps: a registration never stores a blank or
\* untrimmed name
C23_RegisteredNamesNonEmpty ==
    [][ request'.op = "registerCustomer" =>
          \A i \in (Len(CustomerRows(ss)) + 1)..Len(CustomerRows(ss')) :
              /\ IsTrimmedName(CustomerCell(CustomerRows(ss')[i], "first_name"))
              /\ IsTrimmedName(CustomerCell(CustomerRows(ss')[i], "last_name")) ]_vars

(***************************************************************************)
(* C24. The two counters never decrease: last_customer_id_number grows by  *)
(* exactly 1 on a successful registerCustomer, last_sale_id_number by      *)
(* exactly 1 on a successful registerSale, and every other operation       *)
(* leaves each of them as it was.                                          *)
(***************************************************************************)
\* the number a counter holds; 0 before the settings sheet exists
CounterValue(S, key) ==
    IF HasSheet(S, SettingsName) THEN ParseInt(SettingCell(S, key)).v ELSE 0

\* the step is the handling of a request of kind op, answered with success
Succeeds(op) == Idle /\ request'.op = op /\ response'.success

C24_CountersMonotonic ==
    [][ /\ CounterValue(ss', "last_customer_id_number") =
              CounterValue(ss, "last_customer_id_number")
                 + (IF Succeeds("registerCustomer") THEN 1 ELSE 0)
        /\ CounterValue(ss', "last_sale_id_number") =
              CounterValue(ss, "last_sale_id_number")
                 + (IF Succeeds("registerSale") THEN 1 ELSE 0) ]_vars

\* a rebuild of the summary after two customers and two sales were registered
C24_Witness ==
    /\ request.op = "updateSalesSummary"
    /\ CounterValue(ss, "last_customer_id_number") = 2
    /\ CounterValue(ss, "last_sale_id_number") = 2
    /\ Len(CustomerRows(ss)) = 2

(***************************************************************************)
(* C25. Two allocations from one counter that both read it before either   *)
(* writes it back return the same id, and two rows with one id become      *)
(* reachable; when one request runs to completion before the other begins  *)
(* the two ids differ.                                                     *)
(***************************************************************************)
Overlapping == request.op = "overlapping"

\* both calls have allocated an id, from the same counter
BothAllocated ==
    /\ Overlapping
    /\ request.calls[1].op = request.calls[2].op
    /\ response[1].id # <<>>
    /\ response[2].id # <<>>

BothReadBeforeAnyWrite == ~response[1].readAfterWrite /\ ~response[2].readAfterWrite

OneAfterTheOther == response[1].beganAfterDone \/ response[2].beganAfterDone

C25_AllocationRace ==
    BothAllocated =>
        /\ BothReadBeforeAnyWrite => response[1].id = response[2].id
        /\ OneAfterTheOther => response[1].id # response[2].id

\* two customers registered at once were both given the id C00002, both rows stored
C25_Witness ==
    /\ BothAllocated
    /\ BothReadBeforeAnyWrite
    /\ response[1].pc = "done"
    /\ response[2].pc = "done"
    /\ \E i, j \in 1..Len(CustomerRows(ss)) :
          /\ i # j
          /\ CustomerCell(CustomerRows(ss)[i], "customer_id") = Str(IdC2)
          /\ CustomerCell(CustomerRows(ss)[j], "customer_id") = Str(IdC2)

\* two sales registered one after the other got different ids
C25_WitnessSequential ==
    /\ BothAllocated
    /\ OneAfterTheOther
    /\ request.calls[1].op = "registerSale"
    /\ response[1].pc = "done"
    /\ response[2].pc = "done"

(***************************************************************************)
(* C26. Two registerCustomer calls with one phone, each acceptable alone:  *)
(* when both run their duplicate checks before either appends, both        *)
(* succeed and the customers sheet holds two rows with that phone; when    *)
(* one runs to completion before the other begins, the second is rejected  *)
(* as a duplicate phone and only one row holds the phone.                  *)
(***************************************************************************)
SamePhoneTwice ==
    /\ Overlapping
    /\ \A p \in {1, 2} : request.calls[p].op = "registerCustomer"
    /\ request.calls[1].data.phone = request.calls[2].data.phone
    /\ \A p \in {1, 2} : request.acceptable[p]
    /\ \A p \in {1, 2} : response[p].pc = "done"

\* the rows of the customers sheet that hold the phone of the first call
RowsWithThePhone ==
    {i \in 1..Len(CustomerRows(ss)) :
        ToStr(CustomerCell(CustomerRows(ss)[i], "phone")) = request.calls[1].data.phone.v}

C26_DuplicatePhoneRace ==
    SamePhoneTwice =>
        /\ (\A p \in {1, 2} : ~response[p].checkedAfterAppend) =>
              /\ \A p \in {1, 2} : response[p].result.success
              /\ Cardinality(RowsWithThePhone) = 2
        /\ \A p \in {1, 2} :
              response[p].beganAfterDone =>
                 /\ response[3 - p].result.success
                 /\ response[p].result =
                       [success |-> FALSE,
                        error |-> "Customer with this phone number already exists"]
                 /\ Cardinality(RowsWithThePhone) = 1

\* both calls succeeded and two rows share the phone
C26_Witness ==
    /\ SamePhoneTwice
    /\ \A p \in {1, 2} : response[p].result.success
    /\ Cardinality(RowsWithThePhone) = 2

\* the second call began after the first was done, and was rejected
C26_WitnessSequential ==
    /\ SamePhoneTwice
    /\ \E p \in {1, 2} : response[p].beganAfterDone /\ ~response[p].result.success

(***************************************************************************)
(* C27. A call of _getSalesSheetForMonth leaves exactly one sheet for the  *)
(* month, with its one header row; where the sheet existed nothing at all  *)
(* changes, its sale rows included; where it did not, one empty sheet is   *)
(* added and the others are untouched; and a further call for the same     *)
(* month changes nothing.                                                  *)
(***************************************************************************)
SheetsNamed(S, name) == {k \in 1..Len(S) : S[k].name = name}

C27_GetSalesSheetIdempotent ==
    [][ (Idle /\ request'.op = "_getSalesSheetForMonth") =>
          LET name == SalesSheetName(request'.month)
          IN  /\ Cardinality(SheetsNamed(ss', name)) = 1
              /\ GetSheet(ss', name).header = SalesHeader
              /\ HasSheet(ss, name) => ss' = ss
              /\ ~HasSheet(ss, name) =>
                    ss' = Append(ss, [name |-> name, header |-> SalesHeader, rows |-> <<>>])
              /\ _getSalesSheetForMonth(ss', request'.month).ss = ss'
      ]_vars

\* the sheet of a month that holds a sale has been asked for again
C27_Witness ==
    /\ request.op = "_getSalesSheetForMonth"
    /\ Cardinality(SheetsNamed(ss, SalesSheetName(request.month))) = 1
    /\ Len(GetSheet(ss, SalesSheetName(request.month)).rows) >= 1

(***************************************************************************)
(* C28. setupSpreadsheets creates customers, sales_summary and settings    *)
(* only where they are absent: a sheet that existed is left as it was, and *)
(* run where all three exist it changes nothing at all, no row and no      *)
(* counter. Before setup a registerCustomer call returns success:false and *)
(* writes nothing.                                                         *)
(***************************************************************************)
SetupSheetNames == {CustomersName, SummaryName, SettingsName}

C28_SetupNonDestructive ==
    [][ /\ (Idle /\ request'.op = "setup") =>
              /\ response'.success
              /\ \A name \in SetupSheetNames : HasSheet(ss', name)
              /\ \A k \in 1..Len(ss) :
                    ss[k].name # Sheet1Name =>
                       /\ HasSheet(ss', ss[k].name)
                       /\ GetSheet(ss', ss[k].name) = ss[k]
              /\ (\A name \in SetupSheetNames : HasSheet(ss, name)) => ss' = ss
        /\ (Idle /\ request'.op = "registerCustomer" /\ ~HasSheet(ss, CustomersName)) =>
              /\ ~response'.success
              /\ ss' = ss
      ]_vars

\* setup has run again on a spreadsheet that holds a customer and a sale
C28_Witness ==
    /\ request.op = "setup"
    /\ response.message = "No action required."
    /\ Len(CustomerRows(ss)) >= 1
    /\ CountSaleRows(SalesSheets(ss)) >= 1
    /\ CounterValue(ss, "last_sale_id_number") >= 1

\* a registration was attempted before setup
C28_WitnessBeforeSetup ==
    /\ request.op = "registerCustomer"
    /\ ~HasSheet(ss, CustomersName)
    /\ ~response.success

(***************************************************************************)
(* C29. The row appended by a successful registerSale holds, in every      *)
(* column, the value of the same field of the returned sale, an            *)
(* amount_paid or a pending_balance of 0 included.                         *)
(***************************************************************************)
\* the rows stored under the id of the sale just returned
RowsOfReturnedSale ==
    {row \in AllSaleRows(ss) : SaleCell(row, "sale_id") = response.sale.sale_id}

C29_RowEqualsReturnedSale ==
    (request.op = "registerSale" /\ response.success) =>
        /\ RowsOfReturnedSale # {}
        /\ \A row \in RowsOfReturnedSale :
              \A i \in 1..Len(SalesHeader) : row[i] = response.sale[SalesHeader[i]]

\* what the code does: a field that is 0 is stored as an empty cell, every
\* other field as it is returned
C29_RowEqualsReturnedSaleButZero ==
    (request.op = "registerSale" /\ response.success) =>
        /\ RowsOfReturnedSale # {}
        /\ \A row \in RowsOfReturnedSale :
              \A i \in 1..Len(SalesHeader) :
                 row[i] = IF response.sale[SalesHeader[i]] = Num(0)
                          THEN EmptyStr ELSE response.sale[SalesHeader[i]]

(***************************************************************************)
(* C30. Pending is absorbing: a month that the summary reports pending is  *)
(* reported pending again by the next run of updateSalesSummary, whatever  *)
(* registrations, updates and sales were handled since the run that wrote  *)
(* the report; hence by every later run.                                   *)
(***************************************************************************)
\* the months the summary sheet reports pending
ReportedPending(S) ==
    {row[1] : row \in {r \in Range(SummaryRows(S)) : r[2] = Str(SummaryPending)}}

C30_PendingAbsorbing ==
    [][ /\ ReportedPending(ss) \subseteq ReportedPending(ss')
        /\ \A month \in ReportedPending(ss) :
              \E row \in Range(RowsOf(ss, ToStr(month))) : OwesMoney(row)
      ]_vars

\* a later run, in the month after, reports pending a month that by then also
\* holds a fully paid sale
C30_Witness ==
    /\ UpdateSalesSummaryAnswered
    /\ now = 1
    /\ \E row \in Range(SummaryRows(ss)) :
          /\ row[1] = Str(SalesSheetName(FormatMonth(0)))
          /\ row[2] = Str(SummaryPending)
          /\ row[3] = Str(FormatDateTime(1))
    /\ \E row \in Range(RowsOf(ss, SalesSheetName(FormatMonth(0)))) : ~OwesMoney(row)

====
